---- MODULE Spec2Model ----
(***************************************************************************)
(* A model of the miners Minecraft client: the buffer and frame codec of   *)
(* miners-protocol (packet.rs, lib.rs), the login state machine and its    *)
(* protocol-phase handler registry (lib.rs, handler.rs), and the client     *)
(* main loop with its event dispatcher (client.rs, events/mod.rs).         *)
(*                                                                         *)
(* Four specifications share the module:                                   *)
(*   SpecCodec  - the buffer codec of RawPacket: a value written into a    *)
(*                buffer and read back, over bounded values and buffers;   *)
(*   SpecFrame  - one packet framed by send_packet and read back by        *)
(*                read_from_socket, over bounded ids, bodies, thresholds;  *)
(*   SpecLogin  - RawMinecraftSocket::login against a server that sends    *)
(*                any bounded sequence of frames, followed by the main     *)
(*                loop of MinecraftClient::start;                          *)
(*   SpecEvents - the event dispatcher: subscriptions, emit, dispatch_all  *)
(*                and the worker threads it spawns.                        *)
(***************************************************************************)
EXTENDS Integers, Sequences, FiniteSets, Bags, TLC

VARIABLES
    \* ---- SpecCodec: one RawPacket buffer written and read (packet.rs)
    cpc,                    \* "init" | "writing" | "written" | "filled" | "read"
    cop,                    \* the pair of calls under way: "varint" | "string" | ...
    cn,                     \* the i32 handed to write_varint
    cs,                     \* the string handed to write_string, as code points
    ctail,                  \* the bytes write_bytes appends after the value
    cvalue,                 \* `value` of the loop of write_varint
    cbuf,                   \* RawPacket::data
    cout,                   \* what the read returned, and the buffer after it
    \* ---- SpecNbt: one NBT value decoded from a RawPacket (utils/nbt.rs)
    npc,                    \* "init" | "read"
    nbt_value,              \* the value the buffer encodes: [tag, item, n, kids]
    nbt_tail,               \* the bytes that follow the value in the buffer
    nbt_out,                \* what NBTType::from_packet returned, and the buffer after it
    \* ---- SpecSend: threads that call send_packet on one socket (lib.rs)
    senders,                \* thread -> [pc, buf, pos, send] of its send_packet
    tcp_stream,             \* the bytes written to the TcpStream: [send, b]
    started,                \* the calls of send_packet so far: [by, packet, threshold]
    \* ---- SpecFrame: one frame through send_packet / read_from_socket
    fpc,                    \* "init" | "sent" | "received"
    fpacket,                \* the RawPacket handed to send_packet: [id, data]
    fTs,                    \* compression_threshold of the sending socket
    fTr,                    \* compression_threshold of the receiving socket
    fwire,                  \* the bytes on the stream
    fresult,                \* what read_from_socket returned
    \* ---- RawMinecraftSocket (lib.rs)
    socket,                 \* [state, compression_threshold, uuid]
    handler_manager,        \* [handlers: id -> handler, fallback_handler]
    \* ---- SpecRegistry: PacketHandlerManager driven by its caller
    rpc,                    \* "idle" | "ready" | "handled" | "panicked"
    reglog,                 \* the register / register_fallback / unregister_all calls so far
    rpacket,                \* the packet of the last handle
    ran,                    \* the handlers the last handle invoked, in order
    rresult,                \* what the last handle returned
    \* ---- RawMinecraftSocket::login
    lpc,                    \* "connect" | "loop" | "exit" | "returned" | "failed" | "panicked"
    recv,                   \* the last result of wait_for_packet / expect_packet
    hres,                   \* the result of the last PacketHandlerManager::handle
    loginResult,            \* "none" | "Ok" | "LoginFailed" | "panic"
    \* ---- the server and the stream
    wire,                   \* bytes the server wrote that the client has not read
    closed,                 \* the stream has ended (either side shut it down)
    reset,                  \* the peer reset the connection and no read has reported it yet
    srvT,                   \* the threshold the server frames with
    nframes,                \* frames the server has sent
    unread,                 \* frames on the wire the client has not read yet
    sent,                   \* the packets the server has sent, in order
    \* ---- MinecraftClient (client.rs)
    mpc,                    \* "none" | "new" | "dispatch" | "poll" | "peek" | "handle" | "done" | "panicked"
    client_packet_handlers, \* id -> sequence of client handlers
    outbound,               \* the frames the client wrote after login
    handled,                \* the client handlers handle_packet invoked for the last packet, in order
    \* ---- ClientEventDispatcher (events/mod.rs)
    handlers,               \* event type -> sequence of subscribers
    handlers_once,          \* event type -> sequence of one-shot subscribers
    event_queue,            \* sequence of queued events [eid, type]
    workers,                \* eid -> the thread dispatch_all spawned for it
    calls,                  \* <<subscriber, eid>> -> times the subscriber was invoked
    subs,                   \* the subscribers registered so far: [type, once]
    emitted,                \* the events emitted so far: [type, by]
    poisoned,               \* the subscribers whose Mutex a panic has poisoned
    lock_poisoned           \* a panic under the write lock has poisoned the client's RwLock

codecVars  == <<cpc, cop, cn, cs, ctail, cvalue, cbuf, cout>>
nbtVars    == <<npc, nbt_value, nbt_tail, nbt_out>>
sendVars   == <<senders, tcp_stream, started>>
registryVars == <<rpc, reglog, rpacket, ran, rresult>>
frameVars  == <<fpc, fpacket, fTs, fTr, fwire, fresult>>
socketVars == <<socket, handler_manager>>
loginVars  == <<lpc, recv, hres, loginResult>>
serverVars == <<wire, closed, reset, srvT, nframes, unread, sent>>
clientVars == <<mpc, client_packet_handlers, outbound, handled>>
eventVars  == <<handlers, handlers_once, event_queue, workers, calls, subs, emitted,
               poisoned, lock_poisoned>>

vars == <<codecVars, nbtVars, sendVars, registryVars, frameVars, socketVars, loginVars, serverVars, clientVars, eventVars>>

-----------------------------------------------------------------------------
(* Bounds of the model *)

\* longest packet body drawn in SpecFrame
MaxBodyLen == 2

\* frames the server sends in SpecLogin
MaxServerFrames == 4

\* frames the server writes ahead of the client's reads
MaxInFlight == 2

\* frames the server sends in SpecEvents
MaxPlayFrames == 1

\* subscribers registered with on / once in SpecEvents
MaxSubscribers == 2

\* events emitted by user code (before start and from subscribers)
MaxUserEmits == 1

\* subscribers that panic of their own in SpecPanics
MaxPanics == 1

\* frames the server sends in SpecHandlers
MaxHandlerFrames == 2

\* nesting depth of the NBT values in SpecNbt
MaxNbtDepth == 2

\* calls of send_packet in SpecSend
MaxSends == 3

\* client packet handlers user code registers before start in SpecLoop
MaxUserHandlers == 2

\* calls of register, register_fallback and unregister_all in SpecRegistry
MaxRegistryOps == 3

-----------------------------------------------------------------------------
(* Buffer codec: packet.rs *)

\* for i in 0..4 of read_varint and of the length loop of read_from_socket
VarintReadBytes == 4

\* i32::max_value() >> 6, the mask of write_varint's logical shift
ShiftMask == 33554432

RECURSIVE Pow2(_)
Pow2(n) == IF n = 0 THEN 1 ELSE 2 * Pow2(n - 1)

\* A loop body of write_varint that shifts without the mask
WriteVarintIteration_ArithmeticShift(value) ==
    LET low  == value % 128
        next == value \div 128
    IN  [byte |-> IF next # 0 THEN low + 128 ELSE low, value |-> next]

\* One iteration of the loop of RawPacket::write_varint: the byte appended
\* and the value left.  value & 0x7F is value % 128; (value >> 7) &
\* (i32::max_value() >> 6) is the arithmetic shift (floor division) masked to
\* 25 bits.
WriteVarintIteration(value) ==
    LET low  == value % 128
        next == (value \div 128) % ShiftMask
    IN  [byte |-> IF next # 0 THEN low + 128 ELSE low, value |-> next]

\* RawPacket::write_varint: the bytes appended for an i32 value, one per
\* iteration until the value left is 0.
RECURSIVE WriteVarint(_)
WriteVarint(value) ==
    LET it == WriteVarintIteration(value)
    IN  IF it.value # 0 THEN <<it.byte>> \o WriteVarint(it.value) ELSE <<it.byte>>

\* str::bytes: the UTF-8 bytes of a string given as code points
RECURSIVE Utf8(_)
Utf8(string) ==
    IF string = <<>> THEN <<>>
    ELSE LET c == Head(string)
         IN  (IF c < 128 THEN <<c>>
              ELSE IF c < 2048 THEN <<192 + (c \div 64), 128 + (c % 64)>>
              ELSE <<224 + (c \div 4096), 128 + ((c \div 64) % 64), 128 + (c % 64)>>)
             \o Utf8(Tail(string))

\* RawPacket::write_string: the length in bytes as a VarInt, then the bytes
WriteString(string) == WriteVarint(Len(Utf8(string))) \o Utf8(string)

\* RawPacket::read_varint on a buffer: the value, the bytes left, and whether
\* read_byte indexed an empty buffer (a panic).
RECURSIVE ReadVarintLoop(_, _, _)
ReadVarintLoop(data, i, result) ==
    IF i = VarintReadBytes
    THEN [val |-> result, rest |-> data, panic |-> FALSE]
    ELSE IF data = <<>>
    THEN [val |-> result, rest |-> data, panic |-> TRUE]
    ELSE LET b   == Head(data)
             acc == result + (b % 128) * Pow2(7 * i)
         IN  IF b < 128
             THEN [val |-> acc, rest |-> Tail(data), panic |-> FALSE]
             ELSE ReadVarintLoop(Tail(data), i + 1, acc)

ReadVarint(data) == ReadVarintLoop(data, 0, 0)

\* for _ in 0..n { read_byte() }: n bytes off the front; read_byte on an
\* empty buffer panics.  A negative count reads nothing.
ReadN(data, n) ==
    IF n > Len(data)
    THEN [panic |-> TRUE, val |-> <<>>, rest |-> <<>>]
    ELSE IF n <= 0
    THEN [panic |-> FALSE, val |-> <<>>, rest |-> data]
    ELSE [panic |-> FALSE, val |-> SubSeq(data, 1, n),
          rest |-> SubSeq(data, n + 1, Len(data))]

\* RawPacket::try_read_varint: None when the buffer is found empty at the top
\* of an iteration, which is where read_varint would panic; the bytes read
\* before that have been removed from the buffer.
TryReadVarint(data) ==
    LET r == ReadVarint(data)
    IN  IF r.panic THEN [some |-> FALSE, val |-> 0, rest |-> r.rest]
        ELSE [some |-> TRUE, val |-> r.val, rest |-> r.rest]

\* RawPacket::read_ulong: eight bytes, most significant first.  A u64 is kept
\* as its eight big-endian bytes.
ReadUlong(data) == ReadN(data, 8)

\* A read_uuid that takes the first read_ulong as the high 64 bits
ReadUuid_HighFirst(data) ==
    LET l1 == ReadUlong(data)
        l2 == IF l1.panic THEN l1 ELSE ReadUlong(l1.rest)
    IN  IF l2.panic THEN [panic |-> TRUE, val |-> <<>>, rest |-> <<>>]
        ELSE [panic |-> FALSE, val |-> l1.val \o l2.val, rest |-> l2.rest]

\* RawPacket::read_uuid: (l1 as u128) | ((l2 as u128) << 64), the first
\* read_ulong in the low 64 bits.  A u128 is kept as its sixteen big-endian
\* bytes.
ReadUuid(data) ==
    LET l1 == ReadUlong(data)
        l2 == IF l1.panic THEN l1 ELSE ReadUlong(l1.rest)
    IN  IF l2.panic THEN [panic |-> TRUE, val |-> <<>>, rest |-> <<>>]
        ELSE [panic |-> FALSE, val |-> l2.val \o l1.val, rest |-> l2.rest]

\* RawPacket::read_int: four bytes, most significant first, as an i32
ReadInt(data) ==
    LET r == ReadN(data, 4)
    IN  IF r.panic THEN [panic |-> TRUE, val |-> 0, rest |-> <<>>]
        ELSE [panic |-> FALSE, rest |-> r.rest,
              val |-> (IF r.val[1] >= 128 THEN r.val[1] - 256 ELSE r.val[1]) * 16777216
                      + r.val[2] * 65536 + r.val[3] * 256 + r.val[4]]

\* RawPacket::read_ushort
ReadUshort(data) ==
    LET r == ReadN(data, 2)
    IN  IF r.panic THEN [panic |-> TRUE, val |-> 0, rest |-> <<>>]
        ELSE [panic |-> FALSE, rest |-> r.rest, val |-> r.val[1] * 256 + r.val[2]]

\* RawPacket::read_string: a VarInt length and that many bytes
ReadString(data) ==
    LET l == ReadVarint(data)
    IN  IF l.panic THEN [panic |-> TRUE, val |-> <<>>, rest |-> <<>>]
        ELSE ReadN(l.rest, l.val)

\* RawPacket::read_string_ushort: a u16 length and that many bytes
ReadStringUshort(data) ==
    LET l == ReadUshort(data)
    IN  IF l.panic THEN [panic |-> TRUE, val |-> <<>>, rest |-> <<>>]
        ELSE ReadN(l.rest, l.val)

\* RawPacket::try_read_string: None when the buffer runs empty inside the
\* VarInt or inside the characters (the bytes read so far are gone: the
\* buffer is empty then).
TryReadString(data) ==
    LET l == ReadVarint(data)
    IN  IF l.panic \/ Len(l.rest) < l.val
        THEN [some |-> FALSE, val |-> <<>>, rest |-> <<>>]
        ELSE [some |-> TRUE, val |-> SubSeq(l.rest, 1, l.val),
              rest |-> SubSeq(l.rest, l.val + 1, Len(l.rest))]

\* Readers chained: the next read starts where the last one ended, and a
\* panic ends the chain.
Skip(r, n) == IF r.panic THEN r ELSE ReadN(r.rest, n)

SkipVarint(r) ==
    IF r.panic THEN r
    ELSE LET v == ReadVarint(r.rest)
         IN  [panic |-> v.panic, val |-> <<v.val>>, rest |-> v.rest]

SkipString(r) == IF r.panic THEN r ELSE ReadString(r.rest)

RECURSIVE SkipStrings(_, _)
SkipStrings(r, n) ==
    IF r.panic \/ n <= 0 THEN r ELSE SkipStrings(SkipString(r), n - 1)

\* A run of reads: read_ulong, read_int, read_byte (read_bool, read_ubyte),
\* read_varint, read_string
FieldWidth == [ulong |-> 8, int |-> 4, byte |-> 1]

RECURSIVE ReadFields(_, _)
ReadFields(r, fields) ==
    IF fields = <<>> \/ r.panic THEN r
    ELSE LET f == Head(fields)
             n == CASE f = "varint" -> SkipVarint(r)
                    [] f = "string" -> SkipString(r)
                    [] OTHER        -> Skip(r, FieldWidth[f])
         IN  ReadFields(n, Tail(fields))

\* The buffer before the first read
Unread(data) == [panic |-> FALSE, val |-> <<>>, rest |-> data]

-----------------------------------------------------------------------------
(* NBT codec: utils/nbt.rs.  The decoders return where the value ends;      *)
(* err is the Err of an unknown tag, panic a read past the end.             *)

NbtOk(rest) == [panic |-> FALSE, err |-> FALSE, rest |-> rest]
NbtPanic    == [panic |-> TRUE,  err |-> FALSE, rest |-> <<>>]
NbtErr      == [panic |-> FALSE, err |-> TRUE,  rest |-> <<>>]

NbtOf(r) == IF r.panic THEN NbtPanic ELSE NbtOk(r.rest)

\* the typed arrays: an i32 length, then length elements of `width` bytes
NbtArray(data, width) ==
    LET l == ReadInt(data)
    IN  IF l.panic \/ l.val > Len(l.rest) THEN NbtPanic
        ELSE NbtOf(ReadN(l.rest, l.val * width))

RECURSIVE NbtRaw(_, _)
RECURSIVE NbtList(_, _, _)
RECURSIVE NbtCompoundBody(_)

\* NBTType::from_packet_raw
NbtRaw(data, typeid) ==
    CASE typeid = 0  -> NbtOk(data)
      [] typeid = 1  -> NbtOf(ReadN(data, 1))
      [] typeid = 2  -> NbtOf(ReadN(data, 2))
      [] typeid = 3  -> NbtOf(ReadN(data, 4))
      [] typeid = 4  -> NbtOf(ReadN(data, 8))
      [] typeid = 5  -> NbtOf(ReadN(data, 4))
      [] typeid = 6  -> NbtOf(ReadN(data, 8))
      [] typeid = 7  -> NbtArray(data, 1)
      [] typeid = 8  -> NbtOf(ReadStringUshort(data))
      [] typeid = 9  -> LET t == ReadN(data, 1)
                            l == ReadInt(t.rest)
                        IN  IF t.panic \/ l.panic THEN NbtPanic
                            ELSE NbtList(l.rest, t.val[1], l.val)
      [] typeid = 10 -> NbtCompoundBody(data)
      [] typeid = 11 -> NbtArray(data, 4)
      [] typeid = 12 -> NbtArray(data, 8)
      [] OTHER       -> NbtErr

\* A List loop that runs over 0..=length
NbtList_Inclusive(data, item, n) ==
    IF n < 0 THEN NbtOk(data)
    ELSE LET r == NbtRaw(data, item)
         IN  IF r.panic \/ r.err THEN r ELSE NbtList(r.rest, item, n - 1)

\* the List loop: length payloads of the item type
NbtList(data, item, n) ==
    IF n <= 0 THEN NbtOk(data)
    ELSE LET r == NbtRaw(data, item)
         IN  IF r.panic \/ r.err THEN r ELSE NbtList(r.rest, item, n - 1)

\* the Compound loop: {tag, name, payload} until a tag of 0x00
NbtCompoundBody(data) ==
    LET t == ReadN(data, 1)
    IN  IF t.panic THEN NbtPanic
        ELSE IF t.val[1] = 0 THEN NbtOk(t.rest)
        ELSE LET name == ReadStringUshort(t.rest)
             IN  IF name.panic THEN NbtPanic
                 ELSE LET v == NbtRaw(name.rest, t.val[1])
                      IN  IF v.panic \/ v.err THEN v ELSE NbtCompoundBody(v.rest)

\* NBTType::from_packet: the tag, the root name, the payload
NbtFromPacket(data) ==
    LET t    == ReadN(data, 1)
        name == ReadStringUshort(t.rest)
    IN  IF t.panic \/ name.panic THEN NbtPanic ELSE NbtRaw(name.rest, t.val[1])

\* the sequences over S of length n at most
RECURSIVE SeqsUpTo(_, _)
SeqsUpTo(S, n) ==
    IF n = 0 THEN {<<>>}
    ELSE LET shorter == SeqsUpTo(S, n - 1)
         IN  shorter \cup {Append(s, b) : s \in {t \in shorter : Len(t) = n - 1}, b \in S}

\* NBT values, as the wire format lays them out.  tag is the type id; a List
\* (0x09) has the element type id `item`, the declared length n and its
\* payloads `kids`; a Compound (0x0A) has its entries `kids`, each named "a".
\* 0x63 stands for the type ids the decoder does not know.
NbtLeaf(t) == [tag |-> t, item |-> 0, n |-> 0, kids |-> <<>>]

UnknownTag == 99

NbtLeafTags == {0, 1, 8, UnknownTag}

NbtLengths == {-1, 0, 1, 2}

\* the Lists whose payloads are drawn from S: n times the same payload
NbtLists(S) ==
    {[tag |-> 9, item |-> t, n |-> n, kids |-> <<>>] :
        t \in {0, 1, 8, 9, 10, UnknownTag}, n \in {m \in NbtLengths : m <= 0}}
    \cup {[tag |-> 9, item |-> v.tag, n |-> n, kids |-> [i \in 1..n |-> v]] :
             v \in S, n \in {m \in NbtLengths : m > 0}}

\* the Compounds whose entries are drawn from S: none, one, or one followed
\* by a Byte, a String or a payload of the unknown type; an entry has no
\* tag 0x00
NbtCompounds(S) ==
    LET entries == {v \in S : v.tag # 0}
    IN  {[tag |-> 10, item |-> 0, n |-> 0, kids |-> k] :
            k \in {<<>>} \cup {<<v>> : v \in entries}
                   \cup {<<v, NbtLeaf(t)>> : v \in entries, t \in NbtLeafTags \ {0}}}

RECURSIVE NbtValues(_)
NbtValues(depth) ==
    IF depth = 0 THEN {NbtLeaf(t) : t \in NbtLeafTags}
    ELSE LET S == NbtValues(depth - 1)
         IN  S \cup NbtLists(S) \cup NbtCompounds(S)

\* a signed 32-bit integer as its four big-endian bytes
WriteInt(n) ==
    LET u == IF n < 0 THEN n + 2147483647 + 1 ELSE n
    IN  <<(u \div 16777216) + (IF n < 0 THEN 128 ELSE 0), (u \div 65536) % 256,
          (u \div 256) % 256, u % 256>>

\* The payload of a value on the wire: a Byte is 07, a String "A" with its
\* ushort length, End and the unknown type have none
RECURSIVE NbtPayload(_)
RECURSIVE NbtPayloads(_, _)
NbtPayload(v) ==
    CASE v.tag = 1  -> <<7>>
      [] v.tag = 8  -> <<0, 1, 65>>
      [] v.tag = 9  -> <<v.item>> \o WriteInt(v.n) \o NbtPayloads(v.kids, FALSE)
      [] v.tag = 10 -> NbtPayloads(v.kids, TRUE) \o <<0>>
      [] OTHER      -> <<>>

\* the payloads of kids one after the other, as Compound entries {tag, name
\* "a", payload} when named
NbtPayloads(kids, named) ==
    IF kids = <<>> THEN <<>>
    ELSE (IF named THEN <<Head(kids).tag, 0, 1, 97>> ELSE <<>>)
         \o NbtPayload(Head(kids)) \o NbtPayloads(Tail(kids), named)

\* The buffer NBTType::from_packet is handed: tag, empty root name, payload
NbtBuffer(v, tail) == <<v.tag, 0, 0>> \o NbtPayload(v) \o tail

-----------------------------------------------------------------------------
(* Packet decoders: packets/login.rs, handlers/basic.rs *)

\* The properties loop of LoginSuccessPacket::from
RECURSIVE ReadProperties(_, _)
ReadProperties(r, n) ==
    IF r.panic \/ n <= 0 THEN r
    ELSE LET has_sig == ReadFields(r, <<"string", "string", "byte">>)
             sig     == IF ~has_sig.panic /\ has_sig.val[1] = 1
                        THEN SkipString(has_sig) ELSE has_sig
         IN  ReadProperties(sig, n - 1)

\* LoginSuccessPacket::from: the first read_ulong is or-ed in as the low 64
\* bits and the second shifted left by 64.  A u128 is kept as its sixteen
\* big-endian bytes.
DecodeLoginSuccess(body) ==
    LET first  == ReadUlong(body)
        second == Skip(first, 8)
        len    == ReadFields(second, <<"string", "varint">>)
        props  == ReadProperties(len, IF len.panic THEN 0 ELSE len.val[1])
    IN  [panic |-> props.panic,
         uuid  |-> IF props.panic THEN <<>> ELSE second.val \o first.val]

\* LoginPlayPacket::from: whether the decode runs to its end; a read past the
\* end panics and so does unwrap() of an NBT error.
LoginPlayTail(nbt) ==
    ReadFields([panic |-> nbt.panic \/ nbt.err, val |-> <<>>, rest |-> nbt.rest],
               <<"string", "string", "ulong", "varint", "varint", "varint",
                 "byte", "byte", "byte", "byte", "byte">>)

LoginPlayCodec(names) ==
    LoginPlayTail(IF names.panic THEN NbtPanic ELSE NbtFromPacket(names.rest))

LoginPlayDimensions(count) ==
    LoginPlayCodec(SkipStrings(count, IF count.panic THEN 0 ELSE count.val[1]))

DecodeLoginPlay(body) ==
    [panic |-> LoginPlayDimensions(
                   ReadFields(Unread(body),
                              <<"int", "byte", "byte", "byte", "varint">>)).panic]

\* DeathPacket::from
DecodeDeath(body) ==
    LET id      == ReadVarint(body)
        killer  == IF id.panic THEN [panic |-> TRUE, val |-> 0, rest |-> <<>>]
                   ELSE ReadInt(id.rest)
        message == IF killer.panic THEN [panic |-> TRUE, val |-> <<>>, rest |-> <<>>]
                   ELSE ReadString(killer.rest)
    IN  [panic |-> message.panic]

-----------------------------------------------------------------------------
(* zlib (flate2), the library send_packet and read_from_socket call: a      *)
(* stream is a two-byte header, the deflated bytes and a checksum; inflating *)
(* anything else is an error.                                               *)

RECURSIVE SumBytes(_)
SumBytes(s) == IF s = <<>> THEN 0 ELSE (Head(s) + SumBytes(Tail(s))) % 256

Deflate(s) == [i \in 1..Len(s) |-> 255 - s[i]]

ZlibEncode(data) == <<120, 156>> \o Deflate(data) \o <<SumBytes(data)>>

ZlibDecode(bytes) ==
    IF Len(bytes) >= 3 /\ bytes[1] = 120 /\ bytes[2] = 156
    THEN LET body == SubSeq(bytes, 3, Len(bytes) - 1)
             data == Deflate(body)
         IN  IF SumBytes(data) = bytes[Len(bytes)]
             THEN [ok |-> TRUE, data |-> data]
             ELSE [ok |-> FALSE, data |-> <<>>]
    ELSE [ok |-> FALSE, data |-> <<>>]

-----------------------------------------------------------------------------
(* Frame codec: lib.rs send_packet, packet.rs read_from_socket *)

\* A send_packet that writes the size of the compressed bytes as data_len
SendPacketBytes_DataLenOfCompressed(packet, threshold) ==
    LET new_packet     == WriteVarint(packet.id) \o packet.data
        new_packet_len == Len(new_packet)
    IN  IF threshold > 0
        THEN IF new_packet_len >= threshold
             THEN LET new_length_packet ==
                          WriteVarint(Len(ZlibEncode(new_packet))) \o ZlibEncode(new_packet)
                  IN  WriteVarint(Len(new_length_packet)) \o new_length_packet
             ELSE WriteVarint(new_packet_len + 1) \o WriteVarint(0) \o new_packet
        ELSE WriteVarint(new_packet_len) \o new_packet

\* A send_packet whose total_len leaves the data_len byte of a raw payload out
SendPacketBytes_TotalLenOfPayload(packet, threshold) ==
    LET new_packet     == WriteVarint(packet.id) \o packet.data
        new_packet_len == Len(new_packet)
    IN  IF threshold > 0
        THEN IF new_packet_len >= threshold
             THEN LET new_length_packet ==
                          WriteVarint(new_packet_len) \o ZlibEncode(new_packet)
                  IN  WriteVarint(Len(new_length_packet)) \o new_length_packet
             ELSE WriteVarint(new_packet_len) \o WriteVarint(0) \o new_packet
        ELSE WriteVarint(new_packet_len) \o new_packet

\* A send_packet that takes a threshold of 0 as compression enabled
SendPacketBytes_ZeroCompresses(packet, threshold) ==
    LET new_packet     == WriteVarint(packet.id) \o packet.data
        new_packet_len == Len(new_packet)
    IN  IF threshold >= 0
        THEN IF new_packet_len >= threshold
             THEN LET new_length_packet ==
                          WriteVarint(new_packet_len) \o ZlibEncode(new_packet)
                  IN  WriteVarint(Len(new_length_packet)) \o new_length_packet
             ELSE WriteVarint(new_packet_len + 1) \o WriteVarint(0) \o new_packet
        ELSE WriteVarint(new_packet_len) \o new_packet

\* RawMinecraftSocket::send_packet: the bytes of the one write_all.
SendPacketBytes(packet, threshold) ==
    LET new_packet     == WriteVarint(packet.id) \o packet.data
        new_packet_len == Len(new_packet)
    IN  IF threshold > 0
        THEN IF new_packet_len >= threshold
             THEN LET new_length_packet ==
                          WriteVarint(new_packet_len) \o ZlibEncode(new_packet)
                  IN  WriteVarint(Len(new_length_packet)) \o new_length_packet
             ELSE WriteVarint(new_packet_len + 1) \o WriteVarint(0) \o new_packet
        ELSE WriteVarint(new_packet_len) \o new_packet

\* The length loop of read_from_socket: read_exact(&mut buf).ok() keeps the
\* previous byte in buf when the stream has ended.
RECURSIVE ReadLength(_, _, _, _)
ReadLength(stream, i, length, buf) ==
    IF i = VarintReadBytes
    THEN [val |-> length, rest |-> stream, eof |-> FALSE]
    ELSE LET b    == IF stream = <<>> THEN buf ELSE Head(stream)
             rest == IF stream = <<>> THEN stream ELSE Tail(stream)
             acc  == length + (b % 128) * Pow2(7 * i)
         IN  IF stream = <<>>
             THEN [val |-> IF b < 128 THEN acc
                           ELSE ReadLength(rest, i + 1, acc, b).val,
                   rest |-> <<>>, eof |-> TRUE]
             ELSE IF b < 128
             THEN [val |-> acc, rest |-> rest, eof |-> FALSE]
             ELSE ReadLength(rest, i + 1, acc, b)

NoPacket == [id |-> 0, data |-> <<>>]

ReadOutcome(kind, packet, rest, data_len, inflated) ==
    [kind |-> kind, packet |-> packet, rest |-> rest,
     data_len |-> data_len, inflated |-> inflated, starved |-> FALSE]

\* read_from_socket from the packet id on: `id` is read_varint on the
\* (decompressed) payload
DecodePayload(id, after, data_len, inflated) ==
    IF id.panic
    THEN ReadOutcome("panic", NoPacket, after, data_len, inflated)
    ELSE ReadOutcome("ok", [id |-> id.val, data |-> id.rest], after, data_len, inflated)

\* read_from_socket, the decompression: z is the payload, inflated or as it
\* came
Decompressed(z, after, data_len, inflated) ==
    IF ~z.ok
    THEN ReadOutcome("err", NoPacket, after, data_len, inflated)
    ELSE DecodePayload(ReadVarint(z.data), after, data_len, inflated)

\* read_from_socket from the data length on: ul is the uncompressed length
\* read when compression is on; the payload is inflated when
\* uncompressed_length >= threshold && threshold > 0
ReadFrameData(ul, after, threshold) ==
    IF ul.panic
    THEN ReadOutcome("panic", NoPacket, after, -1, FALSE)
    ELSE IF ul.val >= threshold /\ threshold > 0
    THEN Decompressed(ZlibDecode(ul.rest), after, ul.val, TRUE)
    ELSE Decompressed([ok |-> TRUE, data |-> ul.rest], after, ul.val, FALSE)

\* read_from_socket after the length loop: read_exact of len.val bytes
ReadFrame(len, threshold) ==
    IF Len(len.rest) < len.val
    THEN [ReadOutcome("short", NoPacket, <<>>, -1, FALSE) EXCEPT !.starved = TRUE]
    ELSE [ReadFrameData(IF threshold > 0
                        THEN ReadVarint(SubSeq(len.rest, 1, len.val))
                        ELSE [val |-> -1, rest |-> SubSeq(len.rest, 1, len.val),
                              panic |-> FALSE],
                        SubSeq(len.rest, len.val + 1, Len(len.rest)), threshold)
          EXCEPT !.starved = len.eof]

\* RawPacket::read_from_socket on a stream whose bytes are `stream`, followed
\* by the end of the stream.  kind is "ok" (a packet), "err" (the
\* decompression error), "short" (read_exact of the frame ran out of bytes)
\* or "panic" (read_varint on an empty buffer).  starved: the read ran into
\* the end of the bytes; on an open stream it waits there for more, on a
\* closed one the length loop goes on with the byte it has and read_exact of
\* the frame panics.
ReadFromSocket(stream, threshold) == ReadFrame(ReadLength(stream, 0, 0, 0), threshold)

-----------------------------------------------------------------------------
(* Receiving on a socket: lib.rs wait_for_packet / expect_packet *)

\* {"translate":"e","with":[]}: a JSON text serde_json parses as PacketError
ErrorJson ==
    <<123, 34, 116, 114, 97, 110, 115, 108, 97, 116, 101, 34, 58, 34, 101, 34,
      44, 34, 119, 105, 116, 104, 34, 58, 91, 93, 125>>

\* serde_json::from_str::<PacketError>(&es).is_ok(), over the texts of the model
ParsesAsPacketError(text) == text = ErrorJson

\* RawMinecraftSocket::wait_for_packet: read_from_socket, then the error
\* sniffing on a clone of the packet; a body that is a string holding a
\* PacketError JSON is returned as Err(error).
IsPacketError(es) == es.some /\ ParsesAsPacketError(es.val)

\* A sniffing that reads the string off the packet itself, not off a clone
Sniffed_ReadsThePacket(r) ==
    IF r.kind = "ok" /\ IsPacketError(TryReadString(r.packet.data))
    THEN [r EXCEPT !.kind = "servererror"]
    ELSE IF r.kind = "ok"
    THEN [r EXCEPT !.packet.data = TryReadString(r.packet.data).rest]
    ELSE r

Sniffed(r) ==
    IF r.kind = "ok" /\ IsPacketError(TryReadString(r.packet.data))
    THEN [r EXCEPT !.kind = "servererror"]
    ELSE r

WaitForPacket(stream, threshold) == Sniffed(ReadFromSocket(stream, threshold))

\* RawMinecraftSocket::expect_packet: read_from_socket after the peek
ExpectPacket(stream, threshold) == ReadFromSocket(stream, threshold)

-----------------------------------------------------------------------------
(* The socket and the low-level handler registry: lib.rs, handler.rs *)

ZeroUuid == [i \in 1..16 |-> 0]

\* RawMinecraftSocket::new
NewSocket == [state |-> "Handshake", compression_threshold |-> -1, uuid |-> ZeroUuid]

\* PacketHandlerManager::new
NewHandlerManager == [handlers |-> <<>>, fallback_handler |-> "none"]

\* PacketHandler::id of the three basic handlers, and of two handlers a
\* caller of the registry implements: one bound to 0x03 that returns Ok(()),
\* one bound to 0x04 that returns an IOError
HandlerId(h) ==
    CASE h = "SetCompressionHandler" -> 3
      [] h = "LoginSuccessHandler"   -> 2
      [] h = "LoginPlayHandler"      -> 37
      [] h = "UserOkHandler"         -> 3
      [] h = "UserIoErrorHandler"    -> 4

\* A register that keeps the handler an id is already bound to
Register_KeepsPrior(hm, h) ==
    IF HandlerId(h) \in DOMAIN hm.handlers THEN hm
    ELSE [hm EXCEPT !.handlers =
             [i \in DOMAIN hm.handlers \cup {HandlerId(h)} |->
                 IF i = HandlerId(h) THEN h ELSE hm.handlers[i]]]

\* PacketHandlerManager::register
Register(hm, h) ==
    [hm EXCEPT !.handlers =
        [i \in DOMAIN hm.handlers \cup {HandlerId(h)} |->
            IF i = HandlerId(h) THEN h ELSE hm.handlers[i]]]

\* PacketHandlerManager::unregister_all
UnregisterAll(hm) == [hm EXCEPT !.handlers = <<>>]

\* PacketHandlerManager::register_fallback
RegisterFallback(hm, h) == [hm EXCEPT !.fallback_handler = h]

Handled(sock, res) == [sock |-> sock, res |-> res]

\* A SetCompressionHandler without the state check
SetCompressionHandler_AnyState(sock, packet) ==
    Handled([sock EXCEPT !.compression_threshold = ReadVarint(packet.data).val], "Ok")

\* SetCompressionHandler::handle
SetCompressionHandler(sock, packet) ==
    IF sock.state # "Login" THEN Handled(sock, "BadState")
    ELSE LET threshold == ReadVarint(packet.data)
         IN  IF threshold.panic THEN Handled(sock, "panic")
             ELSE Handled([sock EXCEPT !.compression_threshold = threshold.val], "Ok")

\* LoginSuccessHandler::handle
LoginSuccessHandler(sock, packet) ==
    IF sock.state # "Login" THEN Handled(sock, "BadState")
    ELSE LET login_success_packet == DecodeLoginSuccess(packet.data)
         IN  IF login_success_packet.panic THEN Handled(sock, "panic")
             ELSE Handled([sock EXCEPT !.state = "Play",
                                       !.uuid = login_success_packet.uuid], "Ok")

\* A LoginPlayHandler without the state check
LoginPlayHandler_AnyState(sock, packet) ==
    IF DecodeLoginPlay(packet.data).panic THEN Handled(sock, "panic")
    ELSE Handled(sock, "ExitRequested")

\* A LoginPlayHandler that returns Ok(()) and lets the loop go on
LoginPlayHandler_Continues(sock, packet) ==
    IF sock.state # "Play" THEN Handled(sock, "BadState")
    ELSE Handled(sock, "Ok")

\* LoginPlayHandler::handle
LoginPlayHandler(sock, packet) ==
    IF sock.state # "Play" THEN Handled(sock, "BadState")
    ELSE IF DecodeLoginPlay(packet.data).panic THEN Handled(sock, "panic")
    ELSE Handled(sock, "ExitRequested")

\* handler.handle(connection, packet) of a boxed handler
RunHandler(h, sock, packet) ==
    CASE h = "SetCompressionHandler" -> SetCompressionHandler(sock, packet)
      [] h = "LoginSuccessHandler"   -> LoginSuccessHandler(sock, packet)
      [] h = "LoginPlayHandler"      -> LoginPlayHandler(sock, packet)
      [] h = "UserOkHandler"         -> Handled(sock, "Ok")
      [] h = "UserIoErrorHandler"    -> Handled(sock, "IOError")

\* A registry that drops a packet nobody handles
ManagerHandle_DropsUnknown(hm, sock, packet) ==
    IF packet.id \in DOMAIN hm.handlers
    THEN RunHandler(hm.handlers[packet.id], sock, packet)
    ELSE Handled(sock, "Ok")

\* PacketHandlerManager::handle: the handler bound to the id, else the
\* fallback handler, else the "No fallback handler found" error.  ran lists
\* the handlers it invoked.
ManagerHandle(hm, sock, packet) ==
    LET handler == IF packet.id \in DOMAIN hm.handlers
                   THEN hm.handlers[packet.id]
                   ELSE hm.fallback_handler
    IN  IF handler = "none"
        THEN [sock |-> sock, res |-> "NoFallback", ran |-> <<>>]
        ELSE [sock |-> RunHandler(handler, sock, packet).sock,
              res  |-> RunHandler(handler, sock, packet).res,
              ran  |-> <<handler>>]

\* Variants of the end of login: one that resets the connection state, one
\* that leaves the handlers registered
LoginEpilogue_ResetsState(sock, hm) ==
    [sock |-> [sock EXCEPT !.state = "Handshake"], hm |-> UnregisterAll(hm),
     result |-> "Ok"]

LoginEpilogue_KeepsHandlers(sock, hm) ==
    [sock |-> sock, hm |-> hm, result |-> "Ok"]

\* The end of login after handle_packets().ok(): the loop's error is dropped,
\* the handlers are unregistered and the socket is returned.
LoginEpilogue(sock, hm) ==
    [sock |-> sock, hm |-> UnregisterAll(hm), result |-> "Ok"]

-----------------------------------------------------------------------------
(* The server *)

Uuid16 == <<0, 17, 34, 51, 68, 85, 102, 119, 136, 153, 170, 187, 204, 221, 238, 255>>

SetCompressionPacket(t) == [id |-> 3, data |-> WriteVarint(t)]

\* LoginSuccess(uuid, name = "t", no properties)
LoginSuccessPacket == [id |-> 2, data |-> Uuid16 \o <<1, 116>> \o <<0>>]

\* LoginPlay: entity id, hardcore, gamemode, previous gamemode, no dimension
\* names, an empty root Compound, two empty strings, seed, three VarInts,
\* four flags, no death location
LoginPlayPacket ==
    [id |-> 37,
     data |-> <<0, 0, 0, 1, 0, 0, 255>> \o <<0>> \o <<10, 0, 0, 0>> \o <<0>> \o <<0>>
              \o <<0, 0, 0, 0, 0, 0, 0, 42>> \o <<10, 8, 8>> \o <<0, 1, 0, 0>> \o <<0>>]

\* a kick: id 0 with a JSON error as its string body
DisconnectPacket == [id |-> 0, data |-> <<Len(ErrorJson)>> \o ErrorJson]

\* a Login Plugin Request (0x04), which no handler is registered for
PluginRequestPacket == [id |-> 4, data |-> <<>>]

KeepAlivePacket == [id |-> 32, data |-> <<0, 0, 0, 0, 0, 0, 0, 42>>]

\* a KeepAlive whose body is shorter than the i64 token
ShortKeepAlivePacket == [id |-> 32, data |-> <<42>>]

\* Death: player id 1, killer 2, message "x"
DeathPacket == [id |-> 54, data |-> <<1>> \o <<0, 0, 0, 2>> \o <<1, 120>>]

LoginThresholds == {256, 16}

LoginServerPackets ==
    {SetCompressionPacket(t) : t \in LoginThresholds}
    \cup {LoginSuccessPacket, LoginPlayPacket, DisconnectPacket,
          PluginRequestPacket}

PlayServerPackets == {DeathPacket, KeepAlivePacket, ShortKeepAlivePacket}

\* Player Chat Message: no signature, the sender, no header signature, "x"
PlayerChatPacket == [id |-> 51, data |-> <<0>> \o Uuid16 \o <<0>> \o <<1, 120>>]

\* System Chat Message whose text is the JSON {"text":"x"}
SystemChatPacket ==
    [id |-> 98, data |-> <<12, 123, 34, 116, 101, 120, 116, 34, 58, 34, 120, 34, 125>>]

\* System Chat Message whose text is the plain string x
PlainSystemChatPacket == [id |-> 98, data |-> <<1, 120>>]

\* a Death packet cut after the player id
TruncatedDeathPacket == [id |-> 54, data |-> <<1>>]

\* the packets of the ids the built-in client handlers are bound to
HandlerPackets ==
    {KeepAlivePacket, DeathPacket, PlayerChatPacket, SystemChatPacket,
     PlainSystemChatPacket, TruncatedDeathPacket}

\* The server writes one frame, framed with the threshold it last announced.
ServerSend(p) ==
    /\ ~closed
    /\ unread < MaxInFlight
    /\ wire' = wire \o SendPacketBytes(p, srvT)
    /\ unread' = unread + 1
    /\ sent' = Append(sent, p)
    /\ srvT' = IF p.id = 3 THEN ReadVarint(p.data).val ELSE srvT
    /\ nframes' = nframes + 1
    /\ UNCHANGED <<closed, reset>>

ServerSendLogin ==
    /\ lpc \in {"loop", "exit", "returned"}
    /\ mpc \notin {"done", "panicked"}
    /\ nframes < MaxServerFrames
    /\ \E p \in LoginServerPackets : ServerSend(p)
    /\ UNCHANGED <<codecVars, nbtVars, sendVars, registryVars, frameVars, socketVars, loginVars, clientVars, eventVars>>

ServerSendPlay ==
    /\ mpc \notin {"done", "panicked"}
    /\ nframes < MaxPlayFrames
    /\ \E p \in PlayServerPackets : ServerSend(p)
    /\ UNCHANGED <<codecVars, nbtVars, sendVars, registryVars, frameVars, socketVars, loginVars, clientVars, eventVars>>

\* The server sends a packet of one of the ids the client handles
ServerSendHandled ==
    /\ mpc \notin {"done", "panicked"}
    /\ nframes < MaxHandlerFrames
    /\ \E p \in HandlerPackets : ServerSend(p)
    /\ UNCHANGED <<codecVars, nbtVars, sendVars, registryVars, frameVars, socketVars, loginVars, clientVars, eventVars>>

\* The server resets the connection: the next read on an empty receive
\* buffer fails with the error, the ones after it see the end of the stream.
ServerReset ==
    /\ mpc \notin {"done", "panicked"}
    /\ ~closed
    /\ closed' = TRUE
    /\ reset' = TRUE
    /\ UNCHANGED <<wire, srvT, nframes, unread, sent>>
    /\ UNCHANGED <<codecVars, nbtVars, sendVars, registryVars, frameVars, socketVars, loginVars, clientVars, eventVars>>

\* The server closes the connection.
ServerClose ==
    /\ lpc \in {"loop", "exit", "returned"}
    /\ mpc \notin {"done", "panicked"}
    /\ ~closed
    /\ closed' = TRUE
    /\ UNCHANGED <<wire, reset, srvT, nframes, unread, sent>>
    /\ UNCHANGED <<codecVars, nbtVars, sendVars, registryVars, frameVars, socketVars, loginVars, clientVars, eventVars>>

-----------------------------------------------------------------------------
(* RawMinecraftSocket::login *)

NoRecv == ReadOutcome("none", NoPacket, <<>>, -1, FALSE)

\* login up to the handler loop: the status probe on a first connection, the
\* login connection, the three handlers, the handshake, state = Login, the
\* LoginStart.  from_host failing is the LoginFailed error; a failed send or
\* status read is an unwrap() panic.
LoginConnect ==
    /\ lpc = "connect"
    /\ \E outcome \in {"refused", "probe_panic", "connected"} :
        CASE outcome = "refused" ->
                /\ lpc' = "failed"
                /\ loginResult' = "LoginFailed"
                /\ UNCHANGED socketVars
          [] outcome = "probe_panic" ->
                /\ lpc' = "panicked"
                /\ loginResult' = "panic"
                /\ UNCHANGED socketVars
          [] outcome = "connected" ->
                /\ lpc' = "loop"
                /\ loginResult' = "none"
                /\ handler_manager' =
                       Register(Register(Register(handler_manager,
                           "SetCompressionHandler"), "LoginSuccessHandler"),
                           "LoginPlayHandler")
                /\ socket' = [socket EXCEPT !.state = "Login"]
    /\ UNCHANGED <<recv, hres>>
    /\ UNCHANGED <<codecVars, nbtVars, sendVars, registryVars, frameVars, serverVars, clientVars, eventVars>>

\* One iteration of handle_packets inside login: wait_for_packet, then
\* handle.  An Err of either ends the loop; a panic ends login.
LoginLoopStep ==
    /\ lpc = "loop"
    /\ wire # <<>> \/ closed
    /\ \E r \in {WaitForPacket(wire, socket.compression_threshold)} :
           /\ ~r.starved \/ closed
           /\ recv' = r
           /\ wire' = r.rest
           /\ unread' = IF r.kind \in {"panic", "short"} THEN unread ELSE unread - 1
           /\ IF r.kind \in {"panic", "short"}
              THEN /\ lpc' = "panicked"
                   /\ loginResult' = "panic"
                   /\ hres' = "none"
                   /\ UNCHANGED socketVars
              ELSE IF r.kind \in {"err", "servererror"}
              THEN /\ lpc' = "exit"
                   /\ hres' = "none"
                   /\ UNCHANGED <<loginResult, socketVars>>
              ELSE \E h \in {ManagerHandle(handler_manager, socket, r.packet)} :
                       /\ hres' = h.res
                       /\ socket' = h.sock
                       /\ lpc' = CASE h.res = "Ok"    -> "loop"
                                   [] h.res = "panic" -> "panicked"
                                   [] OTHER           -> "exit"
                       /\ loginResult' = IF h.res = "panic" THEN "panic" ELSE loginResult
                       /\ UNCHANGED handler_manager
    /\ UNCHANGED <<closed, reset, srvT, nframes, sent>>
    /\ UNCHANGED <<codecVars, nbtVars, sendVars, registryVars, frameVars, clientVars, eventVars>>

\* login after the loop has ended: unregister_all and Ok(socket)
LoginReturn ==
    /\ lpc = "exit"
    /\ LET e == LoginEpilogue(socket, handler_manager)
       IN  /\ socket' = e.sock
           /\ handler_manager' = e.hm
           /\ loginResult' = e.result
    /\ lpc' = "returned"
    /\ UNCHANGED <<recv, hres>>
    /\ UNCHANGED <<codecVars, nbtVars, sendVars, registryVars, frameVars, serverVars, clientVars, eventVars>>

-----------------------------------------------------------------------------
(* Concurrent senders: lib.rs send_packet, handlers/basic.rs,            *)
(* plugins/basic.rs                                                        *)

\* The threads that send after login: the main loop, whose KeepAliveHandler
\* echoes the token, a subscriber that calls respawn(), and one that calls
\* send_chat_message()
SendThreads == {"main", "respawn", "chat"}

\* KeepAliveHandler: the packet with its id changed to 0x12
KeepAliveEcho == [id |-> 18, data |-> <<0, 0, 0, 0, 0, 0, 0, 42>>]

\* ClientCommandAction::PerformRespawn.into_packet: id 0x07, write_varint(0)
RespawnPacket == [id |-> 7, data |-> WriteVarint(0)]

\* ChatMessagePacket { message: "A", timestamp: 9 }.into_packet: id 0x05, the
\* string, the u64 timestamp, a zero salt, no signature, no signed preview,
\* no previous messages, no last message
ChatMessagePacket ==
    [id |-> 5,
     data |-> WriteString(<<65>>) \o <<0, 0, 0, 0, 0, 0, 0, 9>>
              \o <<0, 0, 0, 0, 0, 0, 0, 0>> \o WriteVarint(0)
              \o <<0>> \o WriteVarint(0) \o <<0>>]

\* the packet each thread hands to send_packet
SendOf(t) ==
    CASE t = "main"    -> KeepAliveEcho
      [] t = "respawn" -> RespawnPacket
      [] t = "chat"    -> ChatMessagePacket

\* a thread outside send_packet that holds no guard
NotSending == [pc |-> "idle", buf |-> <<>>, pos |-> 0, send |-> 0]

\* Locks that admit any number of holders
NoOtherHolds_Shared(t, pcs) == TRUE

\* RwLock::write / Mutex::lock: the guard is handed to t when no other
\* thread holds one; pcs are the positions at which a thread holds it
NoOtherHolds(t, pcs) == \A u \in SendThreads \ {t} : senders[u].pc \notin pcs

\* client.write() in KeepAliveHandler, client.wl() in a subscriber: the
\* thread takes the client's write lock
S_WriteLock(t) ==
    /\ senders[t].pc = "idle"
    /\ Len(started) < MaxSends
    /\ NoOtherHolds(t, {"wl", "writing"})
    /\ senders' = [senders EXCEPT ![t].pc = "wl"]
    /\ UNCHANGED <<tcp_stream, started>>
    /\ UNCHANGED <<codecVars, nbtVars, registryVars, frameVars, socketVars, loginVars, serverVars, clientVars, eventVars>>

\* send_packet up to its write_all: into_packet, self.socket.lock(), and the
\* frame built with self.compression_threshold
S_SendPacket(t) ==
    /\ senders[t].pc = "wl"
    /\ NoOtherHolds(t, {"writing"})
    /\ senders' = [senders EXCEPT ![t] =
                      [pc |-> "writing",
                       buf |-> SendPacketBytes(SendOf(t), socket.compression_threshold),
                       pos |-> 0, send |-> Len(started) + 1]]
    /\ started' = Append(started, [by |-> t, packet |-> SendOf(t),
                                   threshold |-> socket.compression_threshold])
    /\ UNCHANGED tcp_stream
    /\ UNCHANGED <<codecVars, nbtVars, registryVars, frameVars, socketVars, loginVars, serverVars, clientVars, eventVars>>

\* write_all: one write of the stream, which takes one byte or more of what
\* is left of the frame
S_Write(t) ==
    /\ senders[t].pc = "writing"
    /\ ~closed
    /\ \E n \in 1..(Len(senders[t].buf) - senders[t].pos) :
          /\ tcp_stream' = tcp_stream \o [i \in 1..n |->
                                     [send |-> senders[t].send,
                                      b |-> senders[t].buf[senders[t].pos + i]]]
          /\ senders' = [senders EXCEPT ![t].pos = @ + n]
    /\ UNCHANGED started
    /\ UNCHANGED <<codecVars, nbtVars, registryVars, frameVars, socketVars, loginVars, serverVars, clientVars, eventVars>>

\* send_packet returns Ok(()) when the frame is written, or the error of a
\* write on a stream that has ended, which the callers drop with .ok(); the
\* guards of the socket and of the client are dropped
S_Return(t) ==
    /\ senders[t].pc = "writing"
    /\ closed \/ senders[t].pos = Len(senders[t].buf)
    /\ senders' = [senders EXCEPT ![t] = NotSending]
    /\ UNCHANGED <<tcp_stream, started>>
    /\ UNCHANGED <<codecVars, nbtVars, registryVars, frameVars, socketVars, loginVars, serverVars, clientVars, eventVars>>

\* The peer ends the connection: every later write fails
S_StreamEnds ==
    /\ ~closed
    /\ closed' = TRUE
    /\ UNCHANGED <<wire, reset, srvT, nframes, unread, sent>>
    /\ UNCHANGED <<codecVars, nbtVars, sendVars, registryVars, frameVars, socketVars, loginVars, clientVars, eventVars>>

-----------------------------------------------------------------------------
(* ClientEventDispatcher: events/mod.rs *)

EventTypes == {"SpawnEvent", "DeathEvent", "DisconnectEvent", "ChatMessageEvent"}

\* the event types user code subscribes to and emits in SpecEvents
UserEventTypes == {"SpawnEvent", "DisconnectEvent"}

\* ClientEventDispatcher::new: no subscriber, an empty queue
NoSubscribers == [t \in EventTypes |-> <<>>]

\* ClientEventDispatcher::queue (MinecraftClient::emit): the event is pushed
\* on the queue.  emitted keeps, for every event, its type and who emitted it.
Emit(queue, log, type, by) ==
    [queue |-> Append(queue, [eid |-> Len(log) + 1, type |-> type]),
     log   |-> Append(log, [type |-> type, by |-> by])]

\* The loop of start holds the client's read lock from the top of a polling
\* round until expect_packet has returned; emit, disconnect and the removal
\* of the once bucket take the write lock.
ClientReadLocked == mpc = "peek"

UserEmits ==
    Cardinality({i \in 1..Len(emitted) : emitted[i].by \in {"user", "disconnect"}})

\* MinecraftClient::disconnect has run: socket.disconnect() has shut both
\* directions of the stream down.  Its emit is the one tagged "disconnect".
StreamShutDown(log) == \E i \in DOMAIN log : log[i].by = "disconnect"

\* ClientEventDispatcher::register_handler (MinecraftClient::on)
RegisterHandler(hs, type, sub) == [hs EXCEPT ![type] = Append(@, sub)]

\* ClientEventDispatcher::register_handler_once (MinecraftClient::once)
RegisterHandlerOnce(ho, type, sub) == [ho EXCEPT ![type] = Append(@, sub)]

\* A removal that clears the once bucket of every type
RemoveOnce_All(ho, type) == [t \in DOMAIN ho |-> <<>>]

\* The last statement of dispatch: handlers_once.remove(&type_id)
RemoveOnce(ho, type) == [ho EXCEPT ![type] = <<>>]

\* The thread dispatch_all spawns for one event, at the start of dispatch
NewWorker(type) ==
    [type |-> type, pc |-> "clone_handlers", hs |-> <<>>, os |-> <<>>, k |-> 1]

RECURSIVE SpawnAll(_, _)
SpawnAll(ws, queue) ==
    IF queue = <<>> THEN ws
    ELSE SpawnAll([e \in DOMAIN ws \cup {Head(queue).eid} |->
                      IF e = Head(queue).eid THEN NewWorker(Head(queue).type) ELSE ws[e]],
                  Tail(queue))

\* client.on::<E>(f) before start
On ==
    /\ mpc = "new"
    /\ Len(subs) < MaxSubscribers
    /\ \E t \in UserEventTypes :
        /\ handlers' = RegisterHandler(handlers, t, Len(subs) + 1)
        /\ subs' = Append(subs, [type |-> t, once |-> FALSE])
    /\ UNCHANGED <<handlers_once, event_queue, workers, calls, emitted, poisoned, lock_poisoned>>
    /\ UNCHANGED <<codecVars, nbtVars, sendVars, registryVars, frameVars, socketVars, loginVars, serverVars, clientVars>>

\* client.once::<E>(f) before start
Once ==
    /\ mpc = "new"
    /\ Len(subs) < MaxSubscribers
    /\ \E t \in UserEventTypes :
        /\ handlers_once' = RegisterHandlerOnce(handlers_once, t, Len(subs) + 1)
        /\ subs' = Append(subs, [type |-> t, once |-> TRUE])
    /\ UNCHANGED <<handlers, event_queue, workers, calls, emitted, poisoned, lock_poisoned>>
    /\ UNCHANGED <<codecVars, nbtVars, sendVars, registryVars, frameVars, socketVars, loginVars, serverVars, clientVars>>

\* client.emit(e) by user code before start
UserEmit ==
    /\ mpc = "new"
    /\ UserEmits < MaxUserEmits
    /\ \E t \in UserEventTypes :
        LET e == Emit(event_queue, emitted, t, "user")
        IN  /\ event_queue' = e.queue
            /\ emitted' = e.log
    /\ UNCHANGED <<handlers, handlers_once, workers, calls, subs, poisoned, lock_poisoned>>
    /\ UNCHANGED <<codecVars, nbtVars, sendVars, registryVars, frameVars, socketVars, loginVars, serverVars, clientVars>>

\* dispatch, line 110: the persistent subscribers are cloned under the lock
W_CloneHandlers(e) ==
    /\ workers[e].pc = "clone_handlers"
    /\ ~lock_poisoned
    /\ workers' = [workers EXCEPT ![e].hs = handlers[workers[e].type],
                                  ![e].pc = "clone_once"]
    /\ UNCHANGED <<handlers, handlers_once, event_queue, calls, subs, emitted, poisoned, lock_poisoned>>
    /\ UNCHANGED <<codecVars, nbtVars, sendVars, registryVars, frameVars, socketVars, loginVars, serverVars, clientVars>>

\* dispatch, line 111: the one-shot subscribers are cloned under the lock
W_CloneOnce(e) ==
    /\ workers[e].pc = "clone_once"
    /\ ~lock_poisoned
    /\ workers' = [workers EXCEPT ![e].os = handlers_once[workers[e].type],
                                  ![e].pc = "call"]
    /\ UNCHANGED <<handlers, handlers_once, event_queue, calls, subs, emitted, poisoned, lock_poisoned>>
    /\ UNCHANGED <<codecVars, nbtVars, sendVars, registryVars, frameVars, socketVars, loginVars, serverVars, clientVars>>

\* The subscriber the worker is at: the k-th of its two cloned lists
CurrentSub(w) == IF w.k <= Len(w.hs) THEN w.hs[w.k] ELSE w.os[w.k - Len(w.hs)]

\* handler.lock(): the Mutex of a subscriber is held by the worker that runs
\* it, from the call of handle until it returns
SubscriberLocked(sub) ==
    \E e \in DOMAIN workers : workers[e].pc = "wl" /\ CurrentSub(workers[e]) = sub

\* handler.lock().unwrap().handle(client.clone(), &event): the subscriber
\* (user code) is entered.  It returns without touching the client, or it
\* calls client.wl() and waits there for the write lock.
Invoke(sub, e) ==
    /\ ~SubscriberLocked(sub)
    /\ sub \notin poisoned
    /\ calls' = calls (+) SetToBag({<<sub, e>>})
    /\ \/ workers' = [workers EXCEPT ![e].k = @ + 1]
       \/ workers' = [workers EXCEPT ![e].pc = "wl"]
    /\ UNCHANGED <<handlers, handlers_once, event_queue, subs, emitted, poisoned, lock_poisoned>>
    /\ UNCHANGED <<codecVars, nbtVars, sendVars, registryVars, frameVars, socketVars, loginVars, serverVars, clientVars>>

\* dispatch, lines 117-121: the next persistent subscriber is called
W_CallHandlers(e) ==
    /\ workers[e].pc = "call"
    /\ workers[e].k <= Len(workers[e].hs)
    /\ Invoke(workers[e].hs[workers[e].k], e)

\* dispatch, lines 124-128: the next one-shot subscriber is called
W_CallOnce(e) ==
    /\ workers[e].pc = "call"
    /\ workers[e].k > Len(workers[e].hs)
    /\ workers[e].k <= Len(workers[e].hs) + Len(workers[e].os)
    /\ Invoke(workers[e].os[workers[e].k - Len(workers[e].hs)], e)

\* A subscriber that has the write lock: it does nothing with the client,
\* emits an event, calls disconnect(), which shuts the stream down and emits
\* DisconnectEvent (bytes that had arrived before the shutdown stay
\* readable), or registers a subscriber with on / once.  It then drops the
\* guard and returns.
W_UserLocked(e) ==
    /\ workers[e].pc = "wl"
    /\ ~ClientReadLocked
    /\ ~lock_poisoned
    /\ workers' = [workers EXCEPT ![e].pc = "call", ![e].k = @ + 1]
    /\ \/ UNCHANGED <<event_queue, emitted, closed, handlers, handlers_once, subs>>
       \/ /\ UserEmits < MaxUserEmits
          /\ \E t \in UserEventTypes :
              LET q == Emit(event_queue, emitted, t, "user")
              IN  /\ event_queue' = q.queue
                  /\ emitted' = q.log
          /\ UNCHANGED <<closed, handlers, handlers_once, subs>>
       \/ /\ UserEmits < MaxUserEmits
          /\ closed' = TRUE
          /\ LET q == Emit(event_queue, emitted, "DisconnectEvent", "disconnect")
             IN  /\ event_queue' = q.queue
                 /\ emitted' = q.log
          /\ UNCHANGED <<handlers, handlers_once, subs>>
       \/ /\ Len(subs) < MaxSubscribers
          /\ \E t \in UserEventTypes :
              /\ handlers' = RegisterHandler(handlers, t, Len(subs) + 1)
              /\ subs' = Append(subs, [type |-> t, once |-> FALSE])
          /\ UNCHANGED <<event_queue, emitted, closed, handlers_once>>
       \/ /\ Len(subs) < MaxSubscribers
          /\ \E t \in UserEventTypes :
              /\ handlers_once' = RegisterHandlerOnce(handlers_once, t, Len(subs) + 1)
              /\ subs' = Append(subs, [type |-> t, once |-> TRUE])
          /\ UNCHANGED <<event_queue, emitted, closed, handlers>>
    /\ UNCHANGED <<calls, poisoned, lock_poisoned>>
    /\ UNCHANGED <<wire, reset, srvT, nframes, unread, sent>>
    /\ UNCHANGED <<codecVars, nbtVars, sendVars, registryVars, frameVars, socketVars, loginVars, clientVars>>

\* The subscriber the worker is about to call panics in its handler before
\* it has touched the client: the worker thread unwinds and the guard of the
\* subscriber's Mutex, dropped by the unwinding, poisons it.
W_SubscriberPanics(e) ==
    /\ workers[e].pc = "call"
    /\ workers[e].k <= Len(workers[e].hs) + Len(workers[e].os)
    /\ ~SubscriberLocked(CurrentSub(workers[e]))
    /\ CurrentSub(workers[e]) \notin poisoned
    /\ Cardinality(poisoned) < MaxPanics
    /\ calls' = calls (+) SetToBag({<<CurrentSub(workers[e]), e>>})
    /\ poisoned' = poisoned \cup {CurrentSub(workers[e])}
    /\ workers' = [workers EXCEPT ![e].pc = "panicked"]
    /\ UNCHANGED <<handlers, handlers_once, event_queue, subs, emitted, lock_poisoned>>
    /\ UNCHANGED <<codecVars, nbtVars, sendVars, registryVars, frameVars, socketVars, loginVars, serverVars, clientVars>>

\* A subscriber that has the write lock panics: the unwinding poisons the
\* client's RwLock and the subscriber's Mutex.
W_UserLockedPanics(e) ==
    /\ workers[e].pc = "wl"
    /\ ~ClientReadLocked
    /\ ~lock_poisoned
    /\ Cardinality(poisoned) < MaxPanics
    /\ lock_poisoned' = TRUE
    /\ poisoned' = poisoned \cup {CurrentSub(workers[e])}
    /\ workers' = [workers EXCEPT ![e].pc = "panicked"]
    /\ UNCHANGED <<handlers, handlers_once, event_queue, calls, subs, emitted>>
    /\ UNCHANGED <<codecVars, nbtVars, sendVars, registryVars, frameVars, socketVars, loginVars, serverVars, clientVars>>

\* dispatch, lines 119 and 126: handler.lock().unwrap() on a poisoned Mutex
\* panics; the worker ends there without having called the subscriber
W_SubscriberPoisoned(e) ==
    /\ workers[e].pc = "call"
    /\ workers[e].k <= Len(workers[e].hs) + Len(workers[e].os)
    /\ ~SubscriberLocked(CurrentSub(workers[e]))
    /\ CurrentSub(workers[e]) \in poisoned
    /\ workers' = [workers EXCEPT ![e].pc = "panicked"]
    /\ UNCHANGED <<handlers, handlers_once, event_queue, calls, subs, emitted, poisoned, lock_poisoned>>
    /\ UNCHANGED <<codecVars, nbtVars, sendVars, registryVars, frameVars, socketVars, loginVars, serverVars, clientVars>>

\* client.read().unwrap() / client.write().unwrap() of a worker on the
\* poisoned RwLock: dispatch lines 110, 111, 131, and wl() in a subscriber,
\* whose Mutex the unwinding poisons
W_ClientPoisoned(e) ==
    /\ lock_poisoned
    /\ \/ workers[e].pc \in {"clone_handlers", "clone_once", "wl"}
       \/ /\ workers[e].pc = "call"
          /\ workers[e].k > Len(workers[e].hs) + Len(workers[e].os)
    /\ poisoned' = IF workers[e].pc = "wl"
                   THEN poisoned \cup {CurrentSub(workers[e])} ELSE poisoned
    /\ workers' = [workers EXCEPT ![e].pc = "panicked"]
    /\ UNCHANGED <<handlers, handlers_once, event_queue, calls, subs, emitted, lock_poisoned>>
    /\ UNCHANGED <<codecVars, nbtVars, sendVars, registryVars, frameVars, socketVars, loginVars, serverVars, clientVars>>

\* dispatch, line 131: the once bucket of the event's type is removed
W_RemoveOnce(e) ==
    /\ workers[e].pc = "call"
    /\ workers[e].k > Len(workers[e].hs) + Len(workers[e].os)
    /\ ~ClientReadLocked
    /\ ~lock_poisoned
    /\ handlers_once' = RemoveOnce(handlers_once, workers[e].type)
    /\ workers' = [workers EXCEPT ![e].pc = "done"]
    /\ UNCHANGED <<handlers, event_queue, calls, subs, emitted, poisoned, lock_poisoned>>
    /\ UNCHANGED <<codecVars, nbtVars, sendVars, registryVars, frameVars, socketVars, loginVars, serverVars, clientVars>>

-----------------------------------------------------------------------------
(* MinecraftClient: client.rs, handlers/ *)

\* register_all_handlers: KeepAlive on 0x20, Death on 0x36, Chat on 0x33 and 0x62
\* ClientPacketHandler::ids of the built-in handlers, and of two handlers
\* user code implements: one for KeepAlive and Death, one for KeepAlive
ClientHandlerIds(h) ==
    CASE h = "KeepAliveHandler"     -> <<32>>
      [] h = "DeathHandler"         -> <<54>>
      [] h = "ChatHandler"          -> <<51, 98>>
      [] h = "UserHandler"          -> <<32, 54>>
      [] h = "UserKeepAliveHandler" -> <<32>>

\* The loop of register_packet_handler: the handler is pushed on the list of
\* the id, which is created if the id has none
RECURSIVE PushForIds(_, _, _)
PushForIds(cph, h, ids) ==
    IF ids = <<>> THEN cph
    ELSE PushForIds([i \in DOMAIN cph \cup {Head(ids)} |->
                        IF i = Head(ids)
                        THEN (IF i \in DOMAIN cph THEN Append(cph[i], h) ELSE <<h>>)
                        ELSE cph[i]],
                    h, Tail(ids))

\* MinecraftClient::register_packet_handler: one Arc of the handler, a clone
\* of it under each of its ids
RegisterPacketHandler(cph, h) == PushForIds(cph, h, ClientHandlerIds(h))

\* register_all_handlers: KeepAlive, Death, Chat, in this order
RegisterAllHandlers(cph) ==
    RegisterPacketHandler(
        RegisterPacketHandler(
            RegisterPacketHandler(cph, "KeepAliveHandler"), "DeathHandler"),
        "ChatHandler")

\* {"text":"x"}: a JSON text serde_json parses as FormattedChatMessage
ChatJson == <<123, 34, 116, 101, 120, 116, 34, 58, 34, 120, 34, 125>>

\* serde_json::from_str::<FormattedChatMessage>(&text).is_ok(), over the texts
\* of the model: every field of the struct has a default and unknown fields
\* are ignored, so the JSON object of a PacketError parses as well
ParsesAsChatMessage(text) == text \in {ChatJson, ErrorJson}

\* ChatHandler::handle's reads: whether they run to the end, and the message
DecodeChat(packet) ==
    IF packet.id = 51
    THEN LET has_sig == ReadN(packet.data, 1)
             sig     == IF ~has_sig.panic /\ has_sig.val[1] = 1
                        THEN LET l == SkipVarint(has_sig)
                             IN  Skip(l, IF l.panic THEN 0 ELSE l.val[1])
                        ELSE has_sig
             hsl     == ReadFields(sig, <<"ulong", "ulong", "varint">>)
             hsig    == Skip(hsl, IF hsl.panic THEN 0 ELSE hsl.val[1])
             message == SkipString(hsig)
         IN  [panic |-> message.panic]
    ELSE LET message == ReadString(packet.data)
         IN  [panic |-> message.panic \/ ~ParsesAsChatMessage(message.val)]

\* ChatHandler::handle: the source of the ChatMessage it emits.  For a Player
\* Chat Message the sender is read with read_uuid after the optional
\* signature; a System Chat Message has the source System.
ChatSource(packet) ==
    IF packet.id = 51
    THEN LET has_sig == ReadN(packet.data, 1)
             sig     == IF ~has_sig.panic /\ has_sig.val[1] = 1
                        THEN LET l == SkipVarint(has_sig)
                             IN  Skip(l, IF l.panic THEN 0 ELSE l.val[1])
                        ELSE has_sig
             sender  == ReadUuid(sig.rest)
         IN  IF sig.panic \/ sender.panic
             THEN [panic |-> TRUE, kind |-> "none", uuid |-> <<>>]
             ELSE [panic |-> FALSE, kind |-> "Player", uuid |-> sender.val]
    ELSE [panic |-> FALSE, kind |-> "System", uuid |-> <<>>]

\* ChatMessageSource::from(&client): Player(client.uuid), the uuid that
\* MinecraftClient::new took from the socket after login
ClientSource(sock) == [panic |-> FALSE, kind |-> "Player", uuid |-> sock.uuid]

ClientEffect(out, queue, log, panic) ==
    [outbound |-> out, queue |-> queue, log |-> log, panic |-> panic, ran |-> <<>>]

\* RawPacket::read_long: eight bytes, most significant first
ReadLong(data) == ReadN(data, 8)

\* ClientPacketHandler::handle of the built-in handlers: each returns at once
\* unless the state is Play.  KeepAlive logs the token at debug level, which
\* runs read_long on a clone of the packet when that level is enabled, and
\* sends the body back under id 0x12 with send_packet(packet).ok(): on a
\* stream that disconnect has shut down the write fails and the error is
\* dropped.  Death and Chat decode the packet and emit an event.
RunClientHandler(h, sock, packet, eff, debug) ==
    IF sock.state # "Play" THEN eff
    ELSE CASE h = "KeepAliveHandler" ->
                  IF debug /\ ReadLong(packet.data).panic
                  THEN [eff EXCEPT !.panic = TRUE]
                  ELSE IF StreamShutDown(eff.log) THEN eff
                  ELSE [eff EXCEPT !.outbound = Append(@,
                           SendPacketBytes([id |-> 18, data |-> packet.data],
                                           sock.compression_threshold))]
           [] h = "DeathHandler" ->
                  IF DecodeDeath(packet.data).panic THEN [eff EXCEPT !.panic = TRUE]
                  ELSE LET e == Emit(eff.queue, eff.log, "DeathEvent", "handler")
                       IN  [eff EXCEPT !.queue = e.queue, !.log = e.log]
           [] h = "ChatHandler" ->
                  IF DecodeChat(packet).panic THEN [eff EXCEPT !.panic = TRUE]
                  ELSE LET e == Emit(eff.queue, eff.log, "ChatMessageEvent", "handler")
                       IN  [eff EXCEPT !.queue = e.queue, !.log = e.log]
           [] h \in {"UserHandler", "UserKeepAliveHandler"} -> eff

\* The loop of handle_packet over the handlers registered for the id
\* A handle_packet that stops after the first handler
RunClientHandlers_FirstOnly(list, sock, packet, eff, debug) ==
    IF list = <<>> THEN eff
    ELSE RunClientHandler(Head(list), sock, packet,
                          [eff EXCEPT !.ran = Append(@, Head(list))], debug)

RECURSIVE RunClientHandlers(_, _, _, _, _)
RunClientHandlers(list, sock, packet, eff, debug) ==
    IF list = <<>> \/ eff.panic THEN eff
    ELSE RunClientHandlers(Tail(list), sock, packet,
                           RunClientHandler(Head(list), sock, packet,
                               [eff EXCEPT !.ran = Append(@, Head(list))], debug),
                           debug)

\* MinecraftClient::handle_packet
HandlePacket(cph, sock, packet, eff, debug) ==
    IF packet.id \in DOMAIN cph
    THEN RunClientHandlers(cph[packet.id], sock, packet, eff, debug)
    ELSE eff

\* the handlers user code registers in SpecLoop
UserPacketHandlers == {"UserHandler", "UserKeepAliveHandler"}

\* how many register_packet_handler calls user code has made: each of its
\* handlers is bound to 0x20
UserRegistrations(cph) == IF 32 \in DOMAIN cph THEN Len(cph[32]) ELSE 0

\* MinecraftClient::new: login(..).unwrap(), then emit(SpawnEvent)
ClientNew ==
    /\ mpc = "none"
    /\ lpc \in {"returned", "failed"}
    /\ IF lpc = "failed"
       THEN /\ mpc' = "panicked"
            /\ UNCHANGED <<event_queue, emitted>>
       ELSE /\ mpc' = "new"
            /\ LET e == Emit(event_queue, emitted, "SpawnEvent", "new")
               IN  /\ event_queue' = e.queue
                   /\ emitted' = e.log
    /\ UNCHANGED <<client_packet_handlers, outbound, handled>>
    /\ UNCHANGED <<handlers, handlers_once, workers, calls, subs, poisoned, lock_poisoned>>
    /\ UNCHANGED <<codecVars, nbtVars, sendVars, registryVars, frameVars, socketVars, loginVars, serverVars>>

\* client.register_packet_handler(h) by user code before start
P_RegisterPacketHandler ==
    /\ mpc = "new"
    /\ UserRegistrations(client_packet_handlers) < MaxUserHandlers
    /\ \E h \in UserPacketHandlers :
          client_packet_handlers' = RegisterPacketHandler(client_packet_handlers, h)
    /\ UNCHANGED <<mpc, outbound, handled>>
    /\ UNCHANGED <<codecVars, nbtVars, sendVars, registryVars, frameVars, socketVars, loginVars, serverVars, eventVars>>

\* MinecraftClient::start up to the loop: register_all_handlers
M_Start ==
    /\ mpc = "new"
    /\ client_packet_handlers' = RegisterAllHandlers(client_packet_handlers)
    /\ mpc' = "dispatch"
    /\ UNCHANGED <<outbound, handled>>
    /\ UNCHANGED <<codecVars, nbtVars, sendVars, registryVars, frameVars, socketVars, loginVars, serverVars, eventVars>>

\* The loop of start, ClientEventDispatcher::dispatch_all: the queue is
\* drained under its lock and one thread is spawned per event.
M_DispatchAll ==
    /\ mpc = "dispatch"
    /\ ~lock_poisoned
    /\ workers' = SpawnAll(workers, event_queue)
    /\ event_queue' = <<>>
    /\ mpc' = "poll"
    /\ UNCHANGED <<client_packet_handlers, outbound, handled>>
    /\ UNCHANGED <<handlers, handlers_once, calls, subs, emitted, poisoned, lock_poisoned>>
    /\ UNCHANGED <<codecVars, nbtVars, sendVars, registryVars, frameVars, socketVars, loginVars, serverVars>>

\* The loop of start, the top of the polling loop: _self.read()
M_Lock ==
    /\ mpc = "poll"
    /\ ~lock_poisoned
    /\ mpc' = "peek"
    /\ UNCHANGED <<client_packet_handlers, outbound, handled>>
    /\ UNCHANGED <<codecVars, nbtVars, sendVars, registryVars, frameVars, socketVars, loginVars, serverVars, eventVars>>

\* The loop of start, expect_packet: a packet goes on to handle_packet, the
\* decompression error breaks the loop, a read past the end of the stream
\* panics.  While the stream is open and empty, peek waits for a byte.
M_Poll ==
    /\ mpc = "peek"
    /\ wire # <<>> \/ closed
    /\ ~(wire = <<>> /\ reset)
    /\ \E r \in {ExpectPacket(wire, socket.compression_threshold)} :
           /\ ~r.starved \/ closed
           /\ recv' = r
           /\ wire' = r.rest
           /\ unread' = IF r.kind \in {"panic", "short"} THEN unread ELSE unread - 1
           /\ mpc' = CASE r.kind = "ok"  -> "handle"
                       [] r.kind = "err" -> "done"
                       [] OTHER          -> "panicked"
    /\ UNCHANGED <<lpc, hres, loginResult>>
    /\ UNCHANGED <<closed, reset, srvT, nframes, sent>>
    /\ UNCHANGED <<client_packet_handlers, outbound, handled>>
    /\ UNCHANGED <<codecVars, nbtVars, sendVars, registryVars, frameVars, socketVars, eventVars>>

\* A loop that goes from handle_packet straight to the next poll
M_HandlePacket_ThenPolls ==
    /\ mpc = "handle"
    /\ ~lock_poisoned
    /\ \E eff \in {HandlePacket(client_packet_handlers, socket, recv.packet,
                                ClientEffect(outbound, event_queue, emitted, FALSE),
                                debug) : debug \in BOOLEAN} :
           /\ outbound' = eff.outbound
           /\ handled' = eff.ran
           /\ event_queue' = eff.queue
           /\ emitted' = eff.log
           /\ mpc' = IF eff.panic THEN "panicked" ELSE "poll"
    /\ UNCHANGED client_packet_handlers
    /\ UNCHANGED <<handlers, handlers_once, workers, calls, subs, poisoned, lock_poisoned>>
    /\ UNCHANGED <<codecVars, nbtVars, sendVars, registryVars, frameVars, socketVars, loginVars, serverVars>>

\* The loop of start, expect_packet when peek returns an error, which on
\* this blocking socket is the reset of the connection, reported once: the
\* "No data to read" error, on which the loop drops the read lock, sleeps
\* and polls again.
M_PollNoData ==
    /\ mpc = "peek"
    /\ wire = <<>>
    /\ reset
    /\ reset' = FALSE
    /\ mpc' = "poll"
    /\ UNCHANGED <<wire, closed, srvT, nframes, unread, sent>>
    /\ UNCHANGED <<client_packet_handlers, outbound, handled>>
    /\ UNCHANGED <<codecVars, nbtVars, sendVars, registryVars, frameVars, socketVars, loginVars, eventVars>>

\* The loop of start on a poisoned RwLock: the read().unwrap() of
\* dispatch_all, of the polling loop or of handle_packet panics
M_ClientPoisoned ==
    /\ mpc \in {"dispatch", "poll", "handle"}
    /\ lock_poisoned
    /\ mpc' = "panicked"
    /\ UNCHANGED <<client_packet_handlers, outbound, handled>>
    /\ UNCHANGED <<codecVars, nbtVars, sendVars, registryVars, frameVars, socketVars, loginVars, serverVars, eventVars>>

\* The loop of start, handle_packet on the packet just received.  Whether the
\* debug level of the log crate is enabled is the application's choice.
M_HandlePacket ==
    /\ mpc = "handle"
    /\ ~lock_poisoned
    /\ \E eff \in {HandlePacket(client_packet_handlers, socket, recv.packet,
                                ClientEffect(outbound, event_queue, emitted, FALSE),
                                debug) : debug \in BOOLEAN} :
           /\ outbound' = eff.outbound
           /\ handled' = eff.ran
           /\ event_queue' = eff.queue
           /\ emitted' = eff.log
           /\ mpc' = IF eff.panic THEN "panicked" ELSE "dispatch"
    /\ UNCHANGED client_packet_handlers
    /\ UNCHANGED <<handlers, handlers_once, workers, calls, subs, poisoned, lock_poisoned>>
    /\ UNCHANGED <<codecVars, nbtVars, sendVars, registryVars, frameVars, socketVars, loginVars, serverVars>>

-----------------------------------------------------------------------------
(* SpecFrame: a packet framed at threshold fTs and read at threshold fTr *)

\* packet ids: one to five VarInt bytes, and a negative one
FrameIds == {0, 2, 37, 128, 2097152, 268435455, 268435456, -1}

FrameBytes == {0, 65, 66, 200}

FrameThresholds == {-1, 0, 1, 3, 128}

\* The specifications leave each other's variables at rest
NoRead == [ok |-> FALSE, num |-> 0, bytes |-> <<>>]

CodecIdle ==
    /\ cpc = "idle"
    /\ cop = "none"
    /\ cn = 0
    /\ cs = <<>>
    /\ ctail = <<>>
    /\ cvalue = 0
    /\ cbuf = <<>>
    /\ cout = NoRead

NbtIdle ==
    /\ npc = "idle"
    /\ nbt_value = NbtLeaf(0)
    /\ nbt_tail = <<>>
    /\ nbt_out = NbtOk(<<>>)

SendIdle ==
    /\ senders = [t \in SendThreads |-> NotSending]
    /\ tcp_stream = <<>>
    /\ started = <<>>

RegistryIdle ==
    /\ rpc = "idle"
    /\ reglog = <<>>
    /\ rpacket = NoPacket
    /\ ran = <<>>
    /\ rresult = "none"

FrameIdle ==
    /\ fpc = "idle"
    /\ fpacket = NoPacket
    /\ fTs = -1
    /\ fTr = -1
    /\ fwire = <<>>
    /\ fresult = NoRecv

RunIdle ==
    /\ lpc = "idle"
    /\ recv = NoRecv
    /\ hres = "none"
    /\ loginResult = "none"
    /\ wire = <<>>
    /\ closed = FALSE
    /\ reset = FALSE
    /\ srvT = -1
    /\ nframes = 0
    /\ unread = 0
    /\ sent = <<>>
    /\ mpc = "idle"
    /\ client_packet_handlers = <<>>
    /\ outbound = <<>>
    /\ handled = <<>>
    /\ handlers = NoSubscribers
    /\ handlers_once = NoSubscribers
    /\ event_queue = <<>>
    /\ workers = <<>>
    /\ calls = EmptyBag
    /\ subs = <<>>
    /\ emitted = <<>>
    /\ poisoned = {}
    /\ lock_poisoned = FALSE

ProgramIdle ==
    /\ socket = NewSocket
    /\ handler_manager = NewHandlerManager
    /\ RunIdle

FrameInit ==
    /\ fpc = "init"
    /\ fpacket \in [id : FrameIds, data : SeqsUpTo(FrameBytes, MaxBodyLen)]
    /\ fTs \in FrameThresholds
    /\ fTr \in FrameThresholds
    /\ fwire = <<>>
    /\ fresult = NoRecv
    /\ CodecIdle
    /\ NbtIdle
    /\ SendIdle
    /\ RegistryIdle
    /\ ProgramIdle

\* send_packet on the sending socket
FrameSend ==
    /\ fpc = "init"
    /\ fwire' = SendPacketBytes(fpacket, fTs)
    /\ fpc' = "sent"
    /\ UNCHANGED <<fpacket, fTs, fTr, fresult>>
    /\ UNCHANGED <<codecVars, nbtVars, sendVars, registryVars, socketVars, loginVars, serverVars, clientVars, eventVars>>

\* read_from_socket on the receiving socket
FrameRead ==
    /\ fpc = "sent"
    /\ fresult' = ReadFromSocket(fwire, fTr)
    /\ fpc' = "received"
    /\ UNCHANGED <<fpacket, fTs, fTr, fwire>>
    /\ UNCHANGED <<codecVars, nbtVars, sendVars, registryVars, socketVars, loginVars, serverVars, clientVars, eventVars>>

FrameNext == FrameSend \/ FrameRead

SpecFrame == FrameInit /\ [][FrameNext]_vars

\* The connection ends before the whole frame has arrived: the receiving
\* socket holds a proper prefix of the frame, followed by the end of the stream
FrameTruncate ==
    /\ fpc = "sent"
    /\ \E n \in 0..(Len(fwire) - 1) : fwire' = SubSeq(fwire, 1, n)
    /\ fpc' = "cut"
    /\ UNCHANGED <<fpacket, fTs, fTr, fresult>>
    /\ UNCHANGED <<codecVars, nbtVars, sendVars, registryVars, socketVars, loginVars, serverVars, clientVars, eventVars>>

\* The peer sends a frame of declared length 0, which has no id byte
FrameEmpty ==
    /\ fpc = "init"
    /\ fwire' = <<0>>
    /\ fpc' = "cut"
    /\ UNCHANGED <<fpacket, fTs, fTr, fresult>>
    /\ UNCHANGED <<codecVars, nbtVars, sendVars, registryVars, socketVars, loginVars, serverVars, clientVars, eventVars>>

\* read_from_socket on the receiving socket of the ended connection
FrameReadCut ==
    /\ fpc = "cut"
    /\ fresult' = ReadFromSocket(fwire, fTr)
    /\ fpc' = "received"
    /\ UNCHANGED <<fpacket, fTs, fTr, fwire>>
    /\ UNCHANGED <<codecVars, nbtVars, sendVars, registryVars, socketVars, loginVars, serverVars, clientVars, eventVars>>

ReceiveNext == FrameSend \/ FrameTruncate \/ FrameEmpty \/ FrameReadCut

\* SpecReceive: a receive on a stream that ended early or carries an empty frame
SpecReceive == FrameInit /\ [][ReceiveNext]_vars

-----------------------------------------------------------------------------
(* SpecSend: the main loop and two subscribers send on a socket in Play    *)

\* the thresholds the login left the socket with
SendThresholds == {-1, 4, 256}

SendInit ==
    /\ CodecIdle
    /\ NbtIdle
    /\ RegistryIdle
    /\ FrameIdle
    /\ \E T \in SendThresholds :
          socket = [state |-> "Play", compression_threshold |-> T, uuid |-> ZeroUuid]
    /\ handler_manager = NewHandlerManager
    /\ RunIdle
    /\ senders = [t \in SendThreads |-> NotSending]
    /\ tcp_stream = <<>>
    /\ started = <<>>

SendNext ==
    \/ \E t \in SendThreads : S_WriteLock(t)
    \/ \E t \in SendThreads : S_SendPacket(t)
    \/ \E t \in SendThreads : S_Write(t)
    \/ \E t \in SendThreads : S_Return(t)
    \/ S_StreamEnds

SpecSend == SendInit /\ [][SendNext]_vars

-----------------------------------------------------------------------------
(* SpecNbt: NBTType::from_packet on the buffer of one NBT value and a tail  *)

NbtInit ==
    /\ npc = "init"
    /\ nbt_value \in NbtValues(MaxNbtDepth)
    /\ nbt_tail \in {<<>>, <<0>>, <<200, 1>>}
    /\ nbt_out = NbtOk(<<>>)
    /\ CodecIdle
    /\ SendIdle
    /\ RegistryIdle
    /\ FrameIdle
    /\ ProgramIdle

\* NBTType::from_packet(&mut packet)
N_FromPacket ==
    /\ npc = "init"
    /\ nbt_out' = NbtFromPacket(NbtBuffer(nbt_value, nbt_tail))
    /\ npc' = "read"
    /\ UNCHANGED <<nbt_value, nbt_tail>>
    /\ UNCHANGED <<codecVars, sendVars, registryVars, frameVars, socketVars, loginVars, serverVars, clientVars, eventVars>>

NbtNext == N_FromPacket

SpecNbt == NbtInit /\ [][NbtNext]_vars

-----------------------------------------------------------------------------
(* SpecCodec: a value written into an empty RawPacket and read back, or a   *)
(* reader run on a buffer of given bytes                                    *)

CodecOps == {"varint", "string", "try_varint", "try_string", "uuid"}

\* i32 values of one to five VarInt bytes, the edges between them, negatives
VarintValues ==
    {0, 1, 127, 128, 255, 25565, 16383, 16384, 2097151, 2097152, 268435455,
     268435456, 2147483647, -1, -128, -2147483647 - 1}

\* "", "A", "AB", "e" with an acute accent (U+00E9), "A" and the euro sign
Strings == {<<>>, <<65>>, <<65, 66>>, <<233>>, <<65, 8364>>}

\* the bytes that follow the value in the buffer
Tails == {<<>>, <<7>>, <<200, 1>>}

\* buffers for try_read_varint: empty, whole VarInts, VarInts cut short
TryVarintBuffers ==
    {<<>>, <<5>>, <<5, 9>>, <<128>>, <<128, 1>>, <<255, 255, 255>>,
     <<255, 255, 255, 255>>, <<255, 255, 255, 255, 15>>}

\* buffers for try_read_string: whole strings, strings shorter than declared
TryStringBuffers ==
    {<<>>, <<0>>, <<2, 65, 66>>, <<2, 65, 66, 9>>, <<2, 65>>, <<3, 65, 66>>,
     <<128>>, <<1>>}

\* buffers for read_uuid
UuidBuffers ==
    {Uuid16, Uuid16 \o <<9>>, [i \in 1..16 |-> 0], [i \in 1..16 |-> i], SubSeq(Uuid16, 1, 15),
     [i \in 1..16 |-> 255], [i \in 1..16 |-> IF i <= 8 THEN 0 ELSE 255],
     [i \in 1..16 |-> IF i = 1 THEN 128 ELSE 0], [i \in 1..16 |-> IF i = 16 THEN 1 ELSE 0]}

CodecInit ==
    /\ cpc = "init"
    /\ cop \in CodecOps
    /\ cn \in (IF cop = "varint" THEN VarintValues ELSE {0})
    /\ cs \in (IF cop = "string" THEN Strings ELSE {<<>>})
    /\ ctail \in CASE cop = "try_varint" -> TryVarintBuffers
                  [] cop = "try_string" -> TryStringBuffers
                  [] cop = "uuid"       -> UuidBuffers
                  [] OTHER              -> Tails
    /\ cvalue = cn
    /\ cbuf = <<>>
    /\ cout = NoRead
    /\ NbtIdle
    /\ SendIdle
    /\ RegistryIdle
    /\ FrameIdle
    /\ ProgramIdle

CodecRest == <<nbtVars, sendVars, registryVars, frameVars, socketVars, loginVars, serverVars, clientVars, eventVars>>

\* write_varint(cn): one iteration of its loop
C_WriteVarint ==
    /\ cop = "varint"
    /\ cpc \in {"init", "writing"}
    /\ LET it == WriteVarintIteration(cvalue)
       IN  /\ cbuf' = Append(cbuf, it.byte)
           /\ cvalue' = it.value
           /\ cpc' = IF it.value = 0 THEN "written" ELSE "writing"
    /\ UNCHANGED <<cop, cn, cs, ctail, cout>>
    /\ UNCHANGED CodecRest

\* write_string(cs)
C_WriteString ==
    /\ cop = "string"
    /\ cpc = "init"
    /\ cbuf' = cbuf \o WriteString(cs)
    /\ cpc' = "written"
    /\ UNCHANGED <<cop, cn, cs, ctail, cvalue, cout>>
    /\ UNCHANGED CodecRest

\* write_bytes(ctail): after the value, or into the empty buffer of a reader
C_WriteBytes ==
    /\ \/ cpc = "written"
       \/ cpc = "init" /\ cop \in {"try_varint", "try_string", "uuid"}
    /\ cbuf' = cbuf \o ctail
    /\ cpc' = "filled"
    /\ UNCHANGED <<cop, cn, cs, ctail, cvalue, cout>>
    /\ UNCHANGED CodecRest

\* read_varint()
C_ReadVarint ==
    /\ cop = "varint"
    /\ cpc = "filled"
    /\ LET r == ReadVarint(cbuf)
       IN  /\ cout' = [ok |-> ~r.panic, num |-> r.val, bytes |-> <<>>]
           /\ cbuf' = r.rest
    /\ cpc' = "read"
    /\ UNCHANGED <<cop, cn, cs, ctail, cvalue>>
    /\ UNCHANGED CodecRest

\* read_string(): the String holds one char per byte read (byte as char)
C_ReadString ==
    /\ cop = "string"
    /\ cpc = "filled"
    /\ LET r == ReadString(cbuf)
       IN  /\ cout' = [ok |-> ~r.panic, num |-> 0, bytes |-> r.val]
           /\ cbuf' = r.rest
    /\ cpc' = "read"
    /\ UNCHANGED <<cop, cn, cs, ctail, cvalue>>
    /\ UNCHANGED CodecRest

\* try_read_varint()
C_TryReadVarint ==
    /\ cop = "try_varint"
    /\ cpc = "filled"
    /\ LET r == TryReadVarint(cbuf)
       IN  /\ cout' = [ok |-> r.some, num |-> r.val, bytes |-> <<>>]
           /\ cbuf' = r.rest
    /\ cpc' = "read"
    /\ UNCHANGED <<cop, cn, cs, ctail, cvalue>>
    /\ UNCHANGED CodecRest

\* try_read_string()
C_TryReadString ==
    /\ cop = "try_string"
    /\ cpc = "filled"
    /\ LET r == TryReadString(cbuf)
       IN  /\ cout' = [ok |-> r.some, num |-> 0, bytes |-> r.val]
           /\ cbuf' = r.rest
    /\ cpc' = "read"
    /\ UNCHANGED <<cop, cn, cs, ctail, cvalue>>
    /\ UNCHANGED CodecRest

\* read_uuid()
C_ReadUuid ==
    /\ cop = "uuid"
    /\ cpc = "filled"
    /\ LET r == ReadUuid(cbuf)
       IN  /\ cout' = [ok |-> ~r.panic, num |-> 0, bytes |-> r.val]
           /\ cbuf' = r.rest
    /\ cpc' = "read"
    /\ UNCHANGED <<cop, cn, cs, ctail, cvalue>>
    /\ UNCHANGED CodecRest

CodecNext ==
    \/ C_WriteVarint
    \/ C_WriteString
    \/ C_WriteBytes
    \/ C_ReadVarint
    \/ C_ReadString
    \/ C_TryReadVarint
    \/ C_TryReadString
    \/ C_ReadUuid

SpecCodec == CodecInit /\ [][CodecNext]_vars

-----------------------------------------------------------------------------
(* SpecLogin: login against any server, then start() with no subscriber *)

LoginInit ==
    /\ CodecIdle
    /\ NbtIdle
    /\ SendIdle
    /\ RegistryIdle
    /\ FrameIdle
    /\ socket = NewSocket
    /\ handler_manager = NewHandlerManager
    /\ lpc = "connect"
    /\ recv = NoRecv
    /\ hres = "none"
    /\ loginResult = "none"
    /\ wire = <<>>
    /\ closed = FALSE
    /\ reset = FALSE
    /\ srvT = -1
    /\ nframes = 0
    /\ unread = 0
    /\ sent = <<>>
    /\ mpc = "none"
    /\ client_packet_handlers = <<>>
    /\ outbound = <<>>
    /\ handled = <<>>
    /\ handlers = NoSubscribers
    /\ handlers_once = NoSubscribers
    /\ event_queue = <<>>
    /\ workers = <<>>
    /\ calls = EmptyBag
    /\ subs = <<>>
    /\ emitted = <<>>
    /\ poisoned = {}
    /\ lock_poisoned = FALSE

LoginNext ==
    \/ LoginConnect
    \/ LoginLoopStep
    \/ LoginReturn
    \/ ServerSendLogin
    \/ ServerClose
    \/ ClientNew
    \/ M_Start
    \/ M_DispatchAll
    \/ M_Lock
    \/ M_Poll
    \/ M_HandlePacket
    \/ \E e \in DOMAIN workers : W_CloneHandlers(e)
    \/ \E e \in DOMAIN workers : W_CloneOnce(e)
    \/ \E e \in DOMAIN workers : W_RemoveOnce(e)

SpecLogin == LoginInit /\ [][LoginNext]_vars

-----------------------------------------------------------------------------
(* SpecRegistry: a PacketHandlerManager whose caller registers handlers,   *)
(* sets the fallback, clears the registry and hands it packets, on a       *)
(* socket in state Login                                                   *)

RegistryHandlers ==
    {"SetCompressionHandler", "LoginSuccessHandler", "LoginPlayHandler",
     "UserOkHandler", "UserIoErrorHandler"}

RegistryPackets ==
    {SetCompressionPacket(256), LoginSuccessPacket, LoginPlayPacket,
     PluginRequestPacket}

RegistryInit ==
    /\ CodecIdle
    /\ NbtIdle
    /\ SendIdle
    /\ FrameIdle
    /\ RunIdle
    /\ socket = [NewSocket EXCEPT !.state = "Login"]
    /\ handler_manager = NewHandlerManager
    /\ rpc = "ready"
    /\ reglog = <<>>
    /\ rpacket = NoPacket
    /\ ran = <<>>
    /\ rresult = "none"

RegistryRest == <<codecVars, nbtVars, sendVars, frameVars, loginVars, serverVars, clientVars, eventVars>>

\* handler_manager.register(Box::new(h))
R_Register ==
    /\ rpc \in {"ready", "handled"}
    /\ Len(reglog) < MaxRegistryOps
    /\ \E h \in RegistryHandlers :
           /\ handler_manager' = Register(handler_manager, h)
           /\ reglog' = Append(reglog, [op |-> "register", handler |-> h])
    /\ rpc' = "ready"
    /\ UNCHANGED <<socket, rpacket, ran, rresult>>
    /\ UNCHANGED RegistryRest

\* handler_manager.register_fallback(Box::new(h))
R_RegisterFallback ==
    /\ rpc \in {"ready", "handled"}
    /\ Len(reglog) < MaxRegistryOps
    /\ \E h \in RegistryHandlers :
           /\ handler_manager' = RegisterFallback(handler_manager, h)
           /\ reglog' = Append(reglog, [op |-> "register_fallback", handler |-> h])
    /\ rpc' = "ready"
    /\ UNCHANGED <<socket, rpacket, ran, rresult>>
    /\ UNCHANGED RegistryRest

\* handler_manager.unregister_all()
R_UnregisterAll ==
    /\ rpc \in {"ready", "handled"}
    /\ Len(reglog) < MaxRegistryOps
    /\ handler_manager' = UnregisterAll(handler_manager)
    /\ reglog' = Append(reglog, [op |-> "unregister_all", handler |-> "none"])
    /\ rpc' = "ready"
    /\ UNCHANGED <<socket, rpacket, ran, rresult>>
    /\ UNCHANGED RegistryRest

\* handler_manager.handle(&mut socket, packet)
R_Handle ==
    /\ rpc \in {"ready", "handled"}
    /\ \E packet \in RegistryPackets :
         \E h \in {ManagerHandle(handler_manager, socket, packet)} :
           /\ rpacket' = packet
           /\ ran' = h.ran
           /\ rresult' = h.res
           /\ socket' = h.sock
           /\ rpc' = IF h.res = "panic" THEN "panicked" ELSE "handled"
    /\ UNCHANGED <<handler_manager, reglog>>
    /\ UNCHANGED RegistryRest

RegistryNext ==
    \/ R_Register
    \/ R_RegisterFallback
    \/ R_UnregisterAll
    \/ R_Handle

SpecRegistry == RegistryInit /\ [][RegistryNext]_vars

-----------------------------------------------------------------------------
(* SpecEvents: a client that has logged in (SetCompression(256),          *)
(* LoginSuccess, LoginPlay), between MinecraftClient::new and start, and   *)
(* from there on                                                           *)

EventsInit ==
    /\ CodecIdle
    /\ NbtIdle
    /\ SendIdle
    /\ RegistryIdle
    /\ FrameIdle
    /\ socket = [state |-> "Play", compression_threshold |-> 256,
                 uuid |-> DecodeLoginSuccess(LoginSuccessPacket.data).uuid]
    /\ handler_manager = NewHandlerManager
    /\ lpc = "returned"
    /\ recv = NoRecv
    /\ hres = "ExitRequested"
    /\ loginResult = "Ok"
    /\ wire = <<>>
    /\ closed = FALSE
    /\ reset = FALSE
    /\ srvT = 256
    /\ nframes = 0
    /\ unread = 0
    /\ sent = <<>>
    /\ mpc = "new"
    /\ client_packet_handlers = <<>>
    /\ outbound = <<>>
    /\ handled = <<>>
    /\ handlers = NoSubscribers
    /\ handlers_once = NoSubscribers
    /\ event_queue = <<[eid |-> 1, type |-> "SpawnEvent"]>>
    /\ workers = <<>>
    /\ calls = EmptyBag
    /\ subs = <<>>
    /\ emitted = <<[type |-> "SpawnEvent", by |-> "new"]>>
    /\ poisoned = {}
    /\ lock_poisoned = FALSE

EventsNext ==
    \/ On
    \/ Once
    \/ UserEmit
    \/ M_Start
    \/ M_DispatchAll
    \/ M_Lock
    \/ M_Poll
    \/ M_HandlePacket
    \/ M_PollNoData
    \/ ServerSendPlay
    \/ ServerClose
    \/ ServerReset
    \/ \E e \in DOMAIN workers : W_CloneHandlers(e)
    \/ \E e \in DOMAIN workers : W_CloneOnce(e)
    \/ \E e \in DOMAIN workers : W_CallHandlers(e)
    \/ \E e \in DOMAIN workers : W_CallOnce(e)
    \/ \E e \in DOMAIN workers : W_UserLocked(e)
    \/ \E e \in DOMAIN workers : W_RemoveOnce(e)

SpecEvents == EventsInit /\ [][EventsNext]_vars

\* The program with subscribers that may panic
PanicsNext ==
    \/ On
    \/ Once
    \/ UserEmit
    \/ M_Start
    \/ M_DispatchAll
    \/ M_Lock
    \/ M_Poll
    \/ M_HandlePacket
    \/ M_PollNoData
    \/ M_ClientPoisoned
    \/ ServerSendPlay
    \/ ServerClose
    \/ ServerReset
    \/ \E e \in DOMAIN workers : W_CloneHandlers(e)
    \/ \E e \in DOMAIN workers : W_CloneOnce(e)
    \/ \E e \in DOMAIN workers : W_CallHandlers(e)
    \/ \E e \in DOMAIN workers : W_CallOnce(e)
    \/ \E e \in DOMAIN workers : W_UserLocked(e)
    \/ \E e \in DOMAIN workers : W_RemoveOnce(e)
    \/ \E e \in DOMAIN workers : W_SubscriberPanics(e)
    \/ \E e \in DOMAIN workers : W_UserLockedPanics(e)
    \/ \E e \in DOMAIN workers : W_SubscriberPoisoned(e)
    \/ \E e \in DOMAIN workers : W_ClientPoisoned(e)

SpecPanics == EventsInit /\ [][PanicsNext]_vars

\* The events of one run: the one start emits, those of user code, and one
\* per Play frame at most
EventIds == 1..(1 + MaxUserEmits + MaxPlayFrames)

\* One step of the thread that runs start
MainLoopStep ==
    \/ M_Start
    \/ M_DispatchAll
    \/ M_Lock
    \/ M_Poll
    \/ M_PollNoData
    \/ M_HandlePacket

\* One step of the worker thread of event e that takes no write lock
WorkerStep(e) ==
    /\ e \in DOMAIN workers
    /\ \/ W_CloneHandlers(e)
       \/ W_CloneOnce(e)
       \/ W_CallHandlers(e)
       \/ W_CallOnce(e)

\* The steps of the worker thread of event e that take the client's write
\* lock: wl() in a subscriber, and the removal of the once bucket
WorkerWriteStep(e) ==
    /\ e \in DOMAIN workers
    /\ \/ W_UserLocked(e)
       \/ W_RemoveOnce(e)

\* A session like that of miners-test: user code registers its subscribers
\* before start and touches the client from subscribers only; the server
\* sends Play frames, or resets the connection.
SessionNext ==
    \/ On
    \/ Once
    \/ M_Start
    \/ M_DispatchAll
    \/ M_Lock
    \/ M_Poll
    \/ M_HandlePacket
    \/ M_PollNoData
    \/ ServerSendPlay
    \/ ServerReset
    \/ \E e \in DOMAIN workers : W_CloneHandlers(e)
    \/ \E e \in DOMAIN workers : W_CloneOnce(e)
    \/ \E e \in DOMAIN workers : W_CallHandlers(e)
    \/ \E e \in DOMAIN workers : W_CallOnce(e)
    \/ \E e \in DOMAIN workers : W_UserLocked(e)
    \/ \E e \in DOMAIN workers : W_RemoveOnce(e)

\* The threads of the program under the scheduler: every thread that can
\* run does run, and a thread waiting for the write lock gets it if the lock
\* is free again and again (std's RwLock lets no reader starve a waiting
\* writer).  Nothing is assumed of the server.
SpecSessionFair ==
    /\ EventsInit
    /\ [][SessionNext]_vars
    /\ WF_vars(MainLoopStep)
    /\ \A e \in EventIds : WF_vars(WorkerStep(e)) /\ SF_vars(WorkerWriteStep(e))

-----------------------------------------------------------------------------
(* SpecLoop: the same client, whose user code registers client packet       *)
(* handlers of its own before start and subscribes to nothing               *)

LoopInit == EventsInit

LoopNext ==
    \/ P_RegisterPacketHandler
    \/ M_Start
    \/ M_DispatchAll
    \/ M_Lock
    \/ M_Poll
    \/ M_HandlePacket
    \/ ServerSendPlay
    \/ ServerClose
    \/ \E e \in DOMAIN workers : W_CloneHandlers(e)
    \/ \E e \in DOMAIN workers : W_CloneOnce(e)
    \/ \E e \in DOMAIN workers : W_RemoveOnce(e)

SpecLoop == LoopInit /\ [][LoopNext]_vars

-----------------------------------------------------------------------------
(* SpecHandlers: the main loop of a client whose login returned a socket in *)
(* state Play, or one still in state Login, with the built-in handlers      *)

HandlersInit ==
    /\ CodecIdle
    /\ NbtIdle
    /\ SendIdle
    /\ RegistryIdle
    /\ FrameIdle
    /\ \E st \in {"Login", "Play"} :
           socket = [state |-> st, compression_threshold |-> 256,
                     uuid |-> DecodeLoginSuccess(LoginSuccessPacket.data).uuid]
    /\ handler_manager = NewHandlerManager
    /\ lpc = "returned"
    /\ recv = NoRecv
    /\ hres = "ExitRequested"
    /\ loginResult = "Ok"
    /\ wire = <<>>
    /\ closed = FALSE
    /\ reset = FALSE
    /\ srvT = 256
    /\ nframes = 0
    /\ unread = 0
    /\ sent = <<>>
    /\ mpc = "new"
    /\ client_packet_handlers = <<>>
    /\ outbound = <<>>
    /\ handled = <<>>
    /\ handlers = NoSubscribers
    /\ handlers_once = NoSubscribers
    /\ event_queue = <<[eid |-> 1, type |-> "SpawnEvent"]>>
    /\ workers = <<>>
    /\ calls = EmptyBag
    /\ subs = <<>>
    /\ emitted = <<[type |-> "SpawnEvent", by |-> "new"]>>
    /\ poisoned = {}
    /\ lock_poisoned = FALSE

HandlersNext ==
    \/ M_Start
    \/ M_DispatchAll
    \/ M_Lock
    \/ M_Poll
    \/ M_HandlePacket
    \/ ServerSendHandled
    \/ \E e \in DOMAIN workers : W_CloneHandlers(e)
    \/ \E e \in DOMAIN workers : W_CloneOnce(e)
    \/ \E e \in DOMAIN workers : W_RemoveOnce(e)

SpecHandlers == HandlersInit /\ [][HandlersNext]_vars

-----------------------------------------------------------------------------
(* Claims on the event dispatcher, under SpecEvents *)

\* How often subscriber s has been invoked, over all events
RECURSIVE CallsUpTo(_, _)
CallsUpTo(s, e) ==
    IF e = 0 THEN 0 ELSE CopiesIn(<<s, e>>, calls) + CallsUpTo(s, e - 1)

CallsOf(s) == CallsUpTo(s, Len(emitted))

\* How often event e stands in the queue
TimesQueued(e) == Cardinality({i \in 1..Len(event_queue) : event_queue[i].eid = e})

\* C1: a one-shot subscriber is invoked at most once over all emissions, also
\* when two events of its type are dispatched by concurrent worker threads.
C1_OnceInvokedAtMostOnce ==
    \A s \in 1..Len(subs) : subs[s].once => CallsOf(s) <= 1

\* No event is handed to two workers or dispatched twice, and a worker that
\* has finished has invoked every persistent subscriber of its event once.
NeverDuplicatedNorSkippedByWorker ==
    \A e \in 1..Len(emitted) :
        /\ TimesQueued(e) = IF e \in DOMAIN workers THEN 0 ELSE 1
        /\ \A s \in 1..Len(subs) :
              (~subs[s].once /\ subs[s].type = emitted[e].type) =>
                  /\ CopiesIn(<<s, e>>, calls) <= 1
                  /\ (e \in DOMAIN workers /\ workers[e].pc = "done") =>
                         CopiesIn(<<s, e>>, calls) = 1

\* C2: every event queued by emit is dispatched exactly once: one
\* dispatch_all takes it off the queue, each persistent subscriber of its
\* type is invoked exactly once for it, and none is left in the queue when
\* the loop of start, the only caller of dispatch_all, has ended.
C2_EveryEventDispatchedOnce ==
    /\ NeverDuplicatedNorSkippedByWorker
    /\ mpc \in {"done", "panicked"} => event_queue = <<>>

-----------------------------------------------------------------------------
(* Claims on login and on the low-level registry, under SpecLogin *)

StateRank == [Handshake |-> 0, Login |-> 1, Play |-> 2]

\* The step reads one frame off the stream inside the login loop
LoginReceives == lpc = "loop" /\ unread' = unread - 1

\* C3: the connection state is monotonic along Handshake -> Login -> Play: no
\* step, whatever packet it receives, moves the state backwards, and once the
\* state is Play it stays Play.
C3_StateMonotonic ==
    [][StateRank[socket'.state] >= StateRank[socket.state]]_vars

\* C3 happens: in Play, a repeated LoginSuccess has been received and refused
C3_Witness ==
    /\ socket.state = "Play"
    /\ lpc = "exit"
    /\ recv.kind = "ok"
    /\ recv.packet.id = 2
    /\ hres = "BadState"

\* C4: when the login loop ended for any reason other than ExitRequested,
\* login returns the LoginFailed error and no socket.
C4_LoopFailureIsLoginFailed ==
    (lpc = "returned" /\ hres # "ExitRequested") => loginResult = "LoginFailed"

\* The first three packets of the happy path
HappyPath == <<SetCompressionPacket(256), LoginSuccessPacket, LoginPlayPacket>>

SentHappyPath == Len(sent) >= 3 /\ SubSeq(sent, 1, 3) = HappyPath

\* C5: login happy path.  When the server sends SetCompression(256),
\* LoginSuccess and LoginPlay, the loop ends at LoginPlay by ExitRequested
\* with every later frame still unread, and login returns Ok with
\* compression_threshold 256, state Play, the uuid of LoginSuccess and no
\* handler left in the registry.
C5_HappyPath ==
    (SentHappyPath /\ lpc \in {"exit", "returned"}) =>
        /\ hres = "ExitRequested"
        /\ socket.compression_threshold = 256
        /\ socket.state = "Play"
        /\ socket.uuid = SubSeq(Uuid16, 9, 16) \o SubSeq(Uuid16, 1, 8)
        /\ mpc = "none" => /\ recv.packet = LoginPlayPacket
                            /\ unread = nframes - 3
        /\ lpc = "returned" => /\ loginResult = "Ok"
                               /\ handler_manager.handlers = <<>>

\* C5 happens: login has returned from the happy path with a fourth frame
\* waiting on the stream
C5_Witness ==
    /\ SentHappyPath
    /\ lpc = "returned"
    /\ mpc = "none"
    /\ nframes = 4
    /\ unread = 1

\* C6 as stated: once compression_threshold has been assigned, no later step
\* changes it.
C6_AssignedAtMostOnce ==
    [][socket.compression_threshold # -1 =>
          socket'.compression_threshold = socket.compression_threshold]_vars

\* C6, amended: compression_threshold changes only when the login loop
\* receives a SetCompression packet in Login state, and then to the value the
\* packet carries (a second SetCompression overwrites the first); in Play
\* nothing changes it.
C6_AssignedBySetCompressionInLogin ==
    [][socket'.compression_threshold # socket.compression_threshold =>
          /\ LoginReceives
          /\ socket.state = "Login"
          /\ recv'.kind = "ok"
          /\ recv'.packet.id = 3
          /\ socket'.compression_threshold = ReadVarint(recv'.packet.data).val]_vars

\* C6 happens: a second SetCompression has replaced the threshold of the first
C6_Witness ==
    /\ Len(sent) >= 2
    /\ sent[1] = SetCompressionPacket(256)
    /\ sent[2] = SetCompressionPacket(16)
    /\ socket.compression_threshold = 16

\* C7: after login has returned the low-level registry holds no handler, and
\* no step from then on, in particular none of the main loop of start()
\* receiving or handling a packet with id 0x03, 0x02 or 0x25, changes
\* compression_threshold, state or uuid of the socket.
C7_RegistryEmptyAfterLogin ==
    [][/\ lpc' = "returned" => handler_manager'.handlers = <<>>
       /\ lpc = "returned" => socket' = socket]_vars

\* C7 happens: after a login that ended at LoginPlay, the main loop has
\* received and handled a SetCompression packet
C7_Witness ==
    /\ lpc = "returned"
    /\ hres = "ExitRequested"
    /\ mpc = "dispatch"
    /\ recv.kind = "ok"
    /\ recv.packet.id = 3
    /\ socket.compression_threshold # ReadVarint(recv.packet.data).val

\* C8 as stated: in Login state every received packet whose id is neither
\* 0x03 nor 0x02 is rejected by the registry as a bad-state error and leaves
\* the socket unchanged.
C8_RejectedAsBadState ==
    [][(LoginReceives /\ socket.state = "Login" /\ recv'.kind = "ok"
            /\ recv'.packet.id \notin {2, 3}) =>
          (hres' = "BadState" /\ socket' = socket)]_vars

\* C8, amended: in Login state every packet that reaches the registry with an
\* id that is neither 0x03 nor 0x02 is rejected with an error that ends the
\* loop, the bad-state error for 0x25 and the "No fallback handler found"
\* error for any other id, and leaves the socket unchanged.
C8_RejectedWithError ==
    [][(LoginReceives /\ socket.state = "Login" /\ recv'.kind = "ok"
            /\ recv'.packet.id \notin {2, 3}) =>
          /\ hres' = IF recv'.packet.id = 37 THEN "BadState" ELSE "NoFallback"
          /\ lpc' = "exit"
          /\ socket' = socket]_vars

\* C8 happens: in Login state a Login Plugin Request has been refused
C8_Witness ==
    /\ socket.state = "Login"
    /\ lpc = "exit"
    /\ recv.kind = "ok"
    /\ recv.packet.id = 4
    /\ hres = "NoFallback"

-----------------------------------------------------------------------------
(* Claims on the frame codec *)

\* C9: frame round trip.  For every packet (a signed 32-bit id, a body) and
\* every threshold T, the bytes send_packet writes at threshold T are read
\* back by read_from_socket at the same T as a packet with the same id and
\* the same body, and exactly the written bytes are consumed.
C9_FrameRoundTrip ==
    (fpc = "received" /\ fTs = fTr) =>
        /\ fresult.kind = "ok"
        /\ fresult.packet = fpacket
        /\ fresult.rest = <<>>

\* C10: with compression active (T > 0) the receive side chooses between raw
\* and compressed payload by data_len alone: data_len = 0 is raw id+body and
\* every non-zero data_len, also one below T, is inflated.
C10_DataLenAloneSelects ==
    (fpc = "received" /\ fTr > 0 /\ fTs > 0 /\ fresult.kind \in {"ok", "err"}) =>
        (fresult.inflated <=> fresult.data_len # 0)

\* The id and the body of a packet as send_packet lays them out
IdAndBody(p) == WriteVarint(p.id) \o p.data

\* The frame of the worked examples: id 0, body 41 42
ExamplePacket == [id |-> 0, data |-> <<65, 66>>]

\* C11: with threshold T > 0 send_packet writes total_len, data_len and the
\* payload: when the size of id+body is at least T, data_len is that size
\* and the payload is id+body compressed; when it is smaller, data_len is 0
\* and the payload is id+body as it is; total_len is the length of the
\* encoded data_len plus the length of the payload.
C11_CompressedFrameLayout ==
    (fpc \in {"sent", "received"} /\ fTs > 0) =>
        LET original == IdAndBody(fpacket)
            data_len == IF Len(original) >= fTs THEN Len(original) ELSE 0
            payload  == IF Len(original) >= fTs THEN ZlibEncode(original) ELSE original
        IN  fwire = WriteVarint(Len(WriteVarint(data_len)) + Len(payload))
                    \o WriteVarint(data_len) \o payload

\* C11 happens: a packet whose id+body is exactly as long as the threshold
\* has been sent compressed
C11_Witness ==
    /\ fpc = "sent"
    /\ fTs = 3
    /\ Len(IdAndBody(fpacket)) = 3
    /\ fwire[2] = 3

\* C12 as stated: id 0, body 41 42 at threshold 128 is written as
\* 03 00 00 41 42.
C12_ExampleFrameTotalLen3 ==
    (fpc \in {"sent", "received"} /\ fpacket = ExamplePacket /\ fTs = 128) =>
        fwire = <<3, 0, 0, 65, 66>>

\* C12, amended: id 0, body 41 42 at threshold 128 is written as
\* 04 00 00 41 42: total_len 4 counts the data_len byte and the three bytes
\* of id+body, data_len is 0, the payload is id+body.
C12_ExampleFrameTotalLen4 ==
    (fpc \in {"sent", "received"} /\ fpacket = ExamplePacket /\ fTs = 128) =>
        fwire = <<4, 0, 0, 65, 66>>

\* C12 happens: the example packet has been sent at threshold 128
C12_Witness ==
    /\ fpc = "sent"
    /\ fpacket = ExamplePacket
    /\ fTs = 128
    /\ Len(fwire) = 5

\* ids read_varint reads back: those of one to four VarInt bytes
FourByteIds == 0..268435455

\* C13: with compression_threshold <= 0, the initial -1 and 0 alike,
\* send_packet writes total_len, id and body with total_len the length of
\* id+body and no data_len, read_from_socket reads no data_len and inflates
\* nothing, and a frame written so is read back as the packet sent; id 0
\* with body 41 42 is written as 03 00 41 42.
C13_UncompressedFraming ==
    /\ (fpc \in {"sent", "received"} /\ fTs <= 0) =>
           /\ fwire = WriteVarint(Len(IdAndBody(fpacket))) \o WriteVarint(fpacket.id)
                       \o fpacket.data
           /\ fpacket = ExamplePacket => fwire = <<3, 0, 65, 66>>
    /\ (fpc = "received" /\ fTr <= 0) =>
           /\ fresult.data_len = -1
           /\ ~fresult.inflated
           /\ (fTs <= 0 /\ fpacket.id \in FourByteIds) =>
                  /\ fresult.kind = "ok"
                  /\ fresult.packet = fpacket
                  /\ fresult.rest = <<>>

\* C13 happens: the example packet has been sent and read at threshold 0
C13_Witness ==
    /\ fpc = "received"
    /\ fTs = 0
    /\ fTr = 0
    /\ fpacket = ExamplePacket
    /\ fresult.packet = ExamplePacket

-----------------------------------------------------------------------------
(* Claims on the buffer codec, under SpecCodec *)

\* C14: VarInt round trip.  For every signed 32-bit n, read_varint on the
\* bytes write_varint(n) wrote returns n and consumes exactly those bytes,
\* one to five of them, leaving the bytes that follow in the buffer.
C14_VarintRoundTrip ==
    (cop = "varint" /\ cpc = "read") =>
        /\ cout.ok
        /\ cout.num = cn
        /\ cbuf = ctail

\* The 32-bit two's-complement pattern of n in groups of seven bits, the
\* lowest group first: four groups of seven and the four bits above them
Groups(n) ==
    [k \in 1..5 |-> IF k < 5 THEN (n \div Pow2(7 * (k - 1))) % 128
                              ELSE (n \div Pow2(28)) % 16]

\* The groups up to the highest one that is not zero, at least one
GroupCount(n) ==
    LET used == {k \in 1..5 : Groups(n)[k] # 0}
    IN  IF used = {} THEN 1 ELSE CHOOSE k \in used : \A j \in used : j <= k

\* The groups as bytes, the continuation bit on all but the last
Leb128(n) ==
    [k \in 1..GroupCount(n) |-> Groups(n)[k] + (IF k < GroupCount(n) THEN 128 ELSE 0)]

\* The loop of write_varint, run to its end, has written what WriteVarint gives
WriteLoopIsWriteVarint ==
    (cop = "varint" /\ cpc = "written") => cbuf = WriteVarint(cn)

\* C15: write_varint emits the seven-bit groups of the value's 32-bit
\* two's-complement pattern, lowest first, with the continuation bit on all
\* but the last byte: as few bytes as the value needs when it is not
\* negative (0 -> 00, 127 -> 7F, 128 -> 80 01, 25565 -> DD C7 01), five bytes
\* when it is negative (-1 -> FF FF FF FF 0F); the loop ends for every
\* input, after at most five iterations.
C15_WriteVarintEncoding ==
    cop = "varint" =>
        /\ cpc = "writing" => Len(cbuf) < 5
        /\ cpc = "written" =>
               /\ cbuf = Leb128(cn)
               /\ cn < 0 => Len(cbuf) = 5
               /\ cn >= 0 => (Len(cbuf) = 1 \/ cn >= Pow2(7 * (Len(cbuf) - 1)))
               /\ cn = 0 => cbuf = <<0>>
               /\ cn = 127 => cbuf = <<127>>
               /\ cn = 128 => cbuf = <<128, 1>>
               /\ cn = 25565 => cbuf = <<221, 199, 1>>
               /\ cn = -1 => cbuf = <<255, 255, 255, 255, 15>>

\* C15 happens: write_varint(-1) has ended after its fifth iteration
C15_Witness ==
    /\ cop = "varint"
    /\ cpc = "written"
    /\ cn = -1
    /\ Len(cbuf) = 5

\* C16: string round trip.  For every UTF-8 string s, also one with
\* non-ASCII characters, read_string on the bytes write_string(s) wrote
\* returns s and consumes exactly those bytes; write_string("AB") writes
\* 02 41 42.
C16_StringRoundTrip ==
    cop = "string" =>
        /\ (cpc = "written" /\ cs = <<65, 66>>) => cbuf = <<2, 65, 66>>
        /\ cpc = "read" => /\ cout.ok
                           /\ cout.bytes = cs
                           /\ cbuf = ctail

\* C17: try_read_varint and try_read_string leave the buffer as it was
\* whenever they return None.
C17_NoneLeavesBufferUnchanged ==
    (cop \in {"try_varint", "try_string"} /\ cpc = "read" /\ ~cout.ok) =>
        cbuf = ctail

\* C18: a UUID is decoded from sixteen bytes with the first eight as the
\* most significant 64 bits, by read_uuid and by the LoginSuccess decoder
\* alike: the bytes 00 11 22 .. FF give 0x00112233445566778899AABBCCDDEEFF.
C18_UuidHighLongFirst ==
    (cop = "uuid" /\ cpc = "read" /\ cout.ok) =>
        /\ cout.bytes = SubSeq(ctail, 1, 16)
        /\ DecodeLoginSuccess(SubSeq(ctail, 1, 16) \o <<1, 116>> \o <<0>>).uuid
               = SubSeq(ctail, 1, 16)

-----------------------------------------------------------------------------
(* Claims on the main loop after login, under SpecEvents *)

\* handle_packet is about to run on a KeepAlive received in state Play
KeepAliveReceived ==
    /\ mpc = "handle"
    /\ recv.packet.id = 32
    /\ socket.state = "Play"

\* the frame is the packet with id 0x12 and the given body
IsEchoFrame(frame, body) ==
    LET r == ReadFromSocket(frame, socket.compression_threshold)
    IN  /\ r.kind = "ok"
        /\ r.rest = <<>>
        /\ r.packet = [id |-> 18, data |-> body]

\* C19: for every packet with id 0x20 the main loop receives in state Play,
\* handle_packet sends exactly one frame, which carries id 0x12 and the body
\* of the packet received, and the loop goes on to its next round only then.
C19_KeepAliveEcho ==
    [][(KeepAliveReceived /\ mpc' # "handle") =>
           /\ mpc' = "dispatch"
           /\ Len(outbound') = Len(outbound) + 1
           /\ SubSeq(outbound', 1, Len(outbound)) = outbound
           /\ IsEchoFrame(outbound'[Len(outbound')], recv.packet.data)]_vars

\* C20: once disconnect() has shut the stream down, the next read of the
\* main loop yields no packet: the loop ends there and handle_packet does not
\* run again.
C20_NextReadFailsAfterDisconnect ==
    [][(StreamShutDown(emitted) /\ mpc = "peek" /\ mpc' # "peek") =>
           mpc' \in {"done", "panicked"}]_vars

-----------------------------------------------------------------------------
(* Claims on the low-level registry, under SpecRegistry *)

\* The handler the calls in log have left bound to id: the one of the last
\* register for that id since the last unregister_all
RECURSIVE BoundTo(_, _)
BoundTo(log, id) ==
    IF log = <<>> THEN "none"
    ELSE LET last == log[Len(log)]
         IN  IF last.op = "unregister_all" THEN "none"
             ELSE IF last.op = "register" /\ HandlerId(last.handler) = id
             THEN last.handler
             ELSE BoundTo(SubSeq(log, 1, Len(log) - 1), id)

\* The handler of the last register_fallback in log
RECURSIVE FallbackOf(_)
FallbackOf(log) ==
    IF log = <<>> THEN "none"
    ELSE LET last == log[Len(log)]
         IN  IF last.op = "register_fallback" THEN last.handler
             ELSE FallbackOf(SubSeq(log, 1, Len(log) - 1))

\* The handlers handle has to invoke for a packet with this id
Routed(log, id) ==
    IF BoundTo(log, id) # "none" THEN <<BoundTo(log, id)>>
    ELSE IF FallbackOf(log) # "none" THEN <<FallbackOf(log)>>
    ELSE <<>>

\* C24: register replaces the handler bound to the same id; handle invokes
\* exactly one handler, the one last registered for the packet's id, else
\* the fallback handler if one is set, else none and it returns the "no
\* fallback" error; what the handler returns, an error included, is what the
\* caller gets.
C24_RegistryRouting ==
    [][rpc' \in {"handled", "panicked"} =>
          /\ ran' = Routed(reglog, rpacket'.id)
          /\ Len(ran') <= 1
          /\ IF ran' = <<>>
             THEN rresult' = "NoFallback" /\ socket' = socket
             ELSE /\ rresult' = RunHandler(ran'[1], socket, rpacket').res
                  /\ socket' = RunHandler(ran'[1], socket, rpacket').sock]_vars

\* C24 happens: UserOkHandler was registered for 0x03 after
\* SetCompressionHandler, a fallback is set, and a packet 0x03 went to
\* UserOkHandler alone
C24_Witness ==
    /\ rpc = "handled"
    /\ rpacket.id = 3
    /\ ran = <<"UserOkHandler">>
    /\ rresult = "Ok"
    /\ FallbackOf(reglog) # "none"
    /\ \E i, j \in DOMAIN reglog :
          /\ i < j
          /\ reglog[i] = [op |-> "register", handler |-> "SetCompressionHandler"]
          /\ reglog[j] = [op |-> "register", handler |-> "UserOkHandler"]

-----------------------------------------------------------------------------
(* Claims on the handlers of the login phase, under SpecLogin *)

\* The state a handler of the login phase requires
RequiredState(id) == IF id = 37 THEN "Play" ELSE "Login"

\* C26: SetCompression (0x03) and LoginSuccess (0x02) take effect only in
\* state Login and LoginPlay (0x25) only in state Play.  In any other state
\* the handler returns BadState and leaves state, compression_threshold and
\* uuid as they were; LoginPlay in Play returns ExitRequested and changes no
\* field of the socket.
C26_HandlerPreconditions ==
    [][(LoginReceives /\ recv'.kind = "ok" /\ recv'.packet.id \in {2, 3, 37}) =>
          IF socket.state # RequiredState(recv'.packet.id)
          THEN hres' = "BadState" /\ socket' = socket
          ELSE IF recv'.packet.id = 37
          THEN hres' = "ExitRequested" /\ socket' = socket
          ELSE hres' = "Ok"]_vars

\* C26 happens: in Play a SetCompression has been received and refused, the
\* threshold staying what it was
C26_Witness ==
    /\ socket.state = "Play"
    /\ lpc = "exit"
    /\ recv.kind = "ok"
    /\ recv.packet.id = 3
    /\ hres = "BadState"
    /\ socket.compression_threshold # ReadVarint(recv.packet.data).val

-----------------------------------------------------------------------------
(* Claims on the error sniffing of wait_for_packet, under SpecLogin *)

\* C27: when the body of a decoded frame is not a string that parses as a
\* PacketError, wait_for_packet returns the packet with the id and the body
\* read_from_socket decoded, so the handler that decodes it next sees every
\* byte of the body.
C27_SniffingDoesNotConsume ==
    [][(LoginReceives /\ recv'.kind = "ok") =>
          LET r == ReadFromSocket(wire, socket.compression_threshold)
          IN  /\ r.kind = "ok"
              /\ recv'.packet = r.packet
              /\ ~IsPacketError(TryReadString(r.packet.data))]_vars

\* C27 happens: the sniffing has read an (empty) string off the front of a
\* LoginSuccess body, and LoginSuccessHandler decoded the whole body after it
C27_Witness ==
    /\ lpc = "loop"
    /\ recv.kind = "ok"
    /\ recv.packet = LoginSuccessPacket
    /\ TryReadString(recv.packet.data).some
    /\ TryReadString(recv.packet.data).rest # recv.packet.data
    /\ hres = "Ok"
    /\ socket.uuid = DecodeLoginSuccess(LoginSuccessPacket.data).uuid

\* The step takes a frame off the stream that read_from_socket decodes and
\* whose body is a string that parses as a PacketError
ReceivesErrorFrame ==
    /\ unread' = unread - 1
    /\ ReadFromSocket(wire, socket.compression_threshold).kind = "ok"
    /\ IsPacketError(TryReadString(
           ReadFromSocket(wire, socket.compression_threshold).packet.data))

\* C28: every decoded frame whose body is a string that parses as a
\* PacketError is surfaced to the caller as a protocol error and not as a
\* packet, by wait_for_packet in the login loop and by expect_packet in the
\* main loop alike.
C28_ErrorFrameSurfaced ==
    [][ReceivesErrorFrame => recv'.kind = "servererror"]_vars

-----------------------------------------------------------------------------
(* Claims on the client packet handlers, under SpecLoop *)

IsPrefix(a, b) == Len(a) <= Len(b) /\ SubSeq(b, 1, Len(a)) = a

\* the handlers registered for the id, in the order of their registration
RegisteredFor(cph, id) == IF id \in DOMAIN cph THEN cph[id] ELSE <<>>

-----------------------------------------------------------------------------
(* Claims on events emitted by client packet handlers, under SpecEvents *)

\* subscriber invocations for event e so far
InvocationsFor(e) ==
    Cardinality({s \in 1..Len(subs) : CopiesIn(<<s, e>>, calls) > 0})

\* C30: an event a client packet handler emits is only appended to the queue
\* by the handler call: while it is queued the loop stands at dispatch_all,
\* no worker has it and no subscriber has been invoked for it; the next step
\* of the loop, before any poll, hands it to a worker.
C30_HandlerEventDispatchedNextIteration ==
    \A e \in 1..Len(emitted) :
        emitted[e].by = "handler" =>
            IF TimesQueued(e) > 0
            THEN /\ TimesQueued(e) = 1
                 /\ mpc = "dispatch"
                 /\ e \notin DOMAIN workers
                 /\ InvocationsFor(e) = 0
            ELSE e \in DOMAIN workers

\* C30 happens: DeathHandler has emitted a DeathEvent, which is queued, and
\* the loop is about to dispatch it
C30_Witness ==
    /\ mpc = "dispatch"
    /\ recv.packet = DeathPacket
    /\ handled = <<"DeathHandler">>
    /\ \E i \in DOMAIN event_queue :
          /\ event_queue[i].type = "DeathEvent"
          /\ emitted[event_queue[i].eid].by = "handler"

\* A worker of event e is inside a subscriber that waits for the write lock
WaitsForWriteLock(e) == e \in DOMAIN workers /\ workers[e].pc = "wl"

\* C29: a subscriber task that waits for the client's write lock is
\* eventually granted it, the main loop releasing its read lock between two
\* polls of a socket that has nothing to read.
C29_WriterEventuallyGranted ==
    \A e \in EventIds : WaitsForWriteLock(e) ~> ~WaitsForWriteLock(e)

\* Subscriber s is a persistent subscriber of DisconnectEvent
PersistentDisconnectSubscriber(s) ==
    /\ s \in DOMAIN subs
    /\ subs[s] = [type |-> "DisconnectEvent", once |-> FALSE]

\* Event e is the DisconnectEvent that a call of disconnect() emitted
DisconnectEmitted(e) == e \in DOMAIN emitted /\ emitted[e].by = "disconnect"

\* Subscriber s has been invoked with event e
Delivered(s, e) == CopiesIn(<<s, e>>, calls) > 0

\* C21: the DisconnectEvent that disconnect() emits is eventually delivered
\* to every persistent subscriber of DisconnectEvent that was registered
\* before the call.
C21_DisconnectEventDelivered ==
    \A e \in EventIds : \A s \in 1..MaxSubscribers :
        [](PersistentDisconnectSubscriber(s) /\ Len(emitted) < e
              => [](DisconnectEmitted(e) => <>Delivered(s, e)))

\* The worker of event e has run every subscriber and reached the end of dispatch
DispatchCompleted(e) == e \in DOMAIN workers /\ workers[e].pc = "done"

\* C23: a subscriber that, while it is dispatched, takes the client's write
\* lock to register subscribers with on / once always completes, and the
\* dispatch that runs it with it: its worker reaches the end of dispatch.
C23_DispatchAlwaysCompletes ==
    \A e \in EventIds : WaitsForWriteLock(e) ~> DispatchCompleted(e)

\* The subscribers the worker w cloned for its event, in the order of the calls
ClonedSubscribers(w) == w.hs \o w.os

\* C22: a subscriber that panics takes nothing from the others: a worker that
\* has ended, in whatever way, has invoked every subscriber it cloned for
\* its event, those that panicked themselves left aside.
C22_SubscriberFailuresIsolated ==
    \A e \in DOMAIN workers :
        workers[e].pc \in {"done", "panicked"} =>
            \A k \in 1..Len(ClonedSubscribers(workers[e])) :
                \/ ClonedSubscribers(workers[e])[k] \in poisoned
                \/ Delivered(ClonedSubscribers(workers[e])[k], e)

\* the ids of the built-in client handlers
BuiltInIds == {32, 54, 51, 98}

\* handle_packet runs on a packet of a built-in handler's id in this step
HandlesBuiltIn == mpc = "handle" /\ mpc' # "handle" /\ recv.packet.id \in BuiltInIds

\* The step queues exactly one event, of type t
QueuesOne(t) ==
    /\ Len(event_queue') = Len(event_queue) + 1
    /\ SubSeq(event_queue', 1, Len(event_queue)) = event_queue
    /\ event_queue'[Len(event_queue')].type = t

\* C31: outside Play a packet of a built-in handler's id sends no frame and
\* queues no event; in Play a 0x36 packet queues exactly one DeathEvent and a
\* 0x33 or 0x62 packet exactly one ChatMessageEvent.
C31_BuiltInHandlersActOnlyInPlay ==
    [][HandlesBuiltIn =>
          IF socket.state # "Play"
          THEN outbound' = outbound /\ event_queue' = event_queue
          ELSE /\ recv.packet.id = 54 => QueuesOne("DeathEvent")
               /\ recv.packet.id \in {51, 98} => QueuesOne("ChatMessageEvent")]_vars

\* C32: a receive on a closed stream, or of a truncated or empty frame,
\* returns an error value: it yields no packet and does not abort its caller.
C32_ReceiveFailsWithErrorValue == fpc = "received" => fresult.kind = "err"

\* The decoder comes to decode a payload of the unknown type: as the root,
\* as a Compound entry, or as an element of a List that has elements
RECURSIVE ReachesUnknown(_)
ReachesUnknown(v) ==
    \/ v.tag = UnknownTag
    \/ \E i \in DOMAIN v.kids : ReachesUnknown(v.kids[i])

\* The unknown type id occurs in the value, be it only as the element type
\* of a List without elements
RECURSIVE HasUnknownTag(_)
HasUnknownTag(v) ==
    \/ v.tag = UnknownTag
    \/ v.tag = 9 /\ v.item = UnknownTag
    \/ \E i \in DOMAIN v.kids : HasUnknownTag(v.kids[i])

\* C33, as stated: every value in which an unknown type id occurs, at any
\* depth, makes the decode return a failure.
C33_UnknownTagAlwaysFails ==
    npc = "read" /\ HasUnknownTag(nbt_value) => nbt_out.err

\* C33, amended: a Compound is consumed through its End tag and a List
\* through its N payloads (none when N <= 0), the bytes after the value
\* staying in the buffer; the decode returns a failure exactly when it comes
\* to decode a payload of an unknown type, which the element type of a List
\* with N <= 0 never is.
C33_NbtDecoding ==
    npc = "read" =>
        /\ ~nbt_out.panic
        /\ nbt_out.err <=> ReachesUnknown(nbt_value)
        /\ ~nbt_out.err => nbt_out.rest = nbt_tail

\* a Compound holding a List of two payloads was decoded, bytes following it
C33_Witness ==
    /\ npc = "read"
    /\ nbt_value.tag = 10
    /\ \E i \in DOMAIN nbt_value.kids :
           nbt_value.kids[i].tag = 9 /\ nbt_value.kids[i].n = 2
    /\ nbt_tail = <<200, 1>>
    /\ nbt_out = NbtOk(nbt_tail)

-----------------------------------------------------------------------------
(* Claims on the first SpawnEvent, under SpecSessionFair *)

\* Subscriber s was registered for SpawnEvent between new() and start():
\* start has reached its loop and has not spawned a worker yet
SpawnSubscriberAtStart(s) ==
    /\ mpc = "dispatch"
    /\ workers = <<>>
    /\ s \in DOMAIN subs
    /\ subs[s].type = "SpawnEvent"

\* C34: new() queues one SpawnEvent, the first dispatch_all of start hands it
\* to a worker before the socket is polled, and every subscriber registered
\* for SpawnEvent between new() and start() is invoked with it exactly once:
\* never twice, and once in the end.
C34_SpawnEventDeliveredOnce ==
    \A s \in 1..MaxSubscribers :
        /\ [](CopiesIn(<<s, 1>>, calls) <= 1)
        /\ SpawnSubscriberAtStart(s) ~> CopiesIn(<<s, 1>>, calls) = 1

-----------------------------------------------------------------------------
(* Claims on the once buckets, under SpecEvents *)

\* Subscriber s stands in the once bucket of its event type
InOnceBucket(s) ==
    \E i \in DOMAIN handlers_once[subs[s].type] : handlers_once[subs[s].type][i] = s

\* C35: a one-shot subscriber leaves the once bucket only after it has been
\* invoked: one registered while an event of its type is being dispatched
\* has been invoked or is still registered, never removed without having
\* fired.
C35_OnceRemovedOnlyAfterInvoked ==
    \A s \in DOMAIN subs :
        subs[s].once => InOnceBucket(s) \/ CallsOf(s) > 0

-----------------------------------------------------------------------------
(* Claims on the frame of dispatch, under SpecEvents *)

\* The worker of event e takes a step of dispatch itself: any step but the
\* one its subscriber takes under the write lock
DispatchStep(e) == workers'[e] # workers[e] /\ workers[e].pc # "wl"

\* The literal reading of C36: when the dispatch of an event has ended, the
\* persistent subscribers of its type are those it cloned when it began.
C36_ListsSameAfterDispatch ==
    \A e \in DOMAIN workers :
        workers[e].pc = "done" => handlers[workers[e].type] = workers[e].hs

\* C36: the code of dispatch changes only the once bucket of the type of its
\* event: no step of dispatch changes a persistent subscriber list or the
\* once bucket of another type (what changes there during a dispatch is a
\* registration made by a subscriber), and a subscriber is only ever invoked
\* with events of the type it was registered for.
C36_DispatchChangesOnlyItsOnceBucket ==
    [][/\ \A e \in DOMAIN workers :
            DispatchStep(e) =>
                /\ handlers' = handlers
                /\ \A t \in EventTypes \ {workers[e].type} :
                      handlers_once'[t] = handlers_once[t]
       /\ \A c \in BagToSet(calls') : subs'[c[1]].type = emitted'[c[2]].type]_vars

\* A dispatch of the SpawnEvent has ended that invoked a one-shot subscriber
\* and removed it; the once bucket of DisconnectEvent still holds the other
\* subscriber
C36_Witness ==
    /\ 1 \in DOMAIN workers
    /\ workers[1].pc = "done"
    /\ workers[1].os # <<>>
    /\ CopiesIn(<<workers[1].os[1], 1>>, calls) = 1
    /\ handlers_once["SpawnEvent"] = <<>>
    /\ handlers_once["DisconnectEvent"] # <<>>

-----------------------------------------------------------------------------
(* Claims on concurrent sends, under SpecSend *)

\* the bytes send i has put on the stream, in order
BytesOf(i) ==
    LET own == SelectSeq(tcp_stream, LAMBDA x : x.send = i)
    IN  [k \in DOMAIN own |-> own[k].b]

\* the frame of send i under the threshold in effect when it started
FrameOf(i) == SendPacketBytes(started[i].packet, started[i].threshold)

\* send i has not returned yet
InProgress(i) == \E t \in SendThreads : senders[t].pc = "writing" /\ senders[t].send = i

\* C37: outbound frames are atomic on the wire: the bytes of one send are
\* contiguous in the stream, never interleaved with those of another; they
\* are the frame of its packet under the threshold in effect when the send
\* started, whole once the send has returned on a stream that has not ended.
C37_FramesAtomicOnTheWire ==
    /\ \A j, k \in DOMAIN tcp_stream : j < k => tcp_stream[j].send <= tcp_stream[k].send
    /\ \A i \in DOMAIN started :
          /\ IsPrefix(BytesOf(i), FrameOf(i))
          /\ (~InProgress(i) /\ ~closed) => BytesOf(i) = FrameOf(i)

\* The three threads have each sent one frame under the threshold 4, the
\* compressed echo among them, and the stream holds the three frames
C37_Witness ==
    /\ Len(started) = 3
    /\ {started[i].by : i \in DOMAIN started} = SendThreads
    /\ socket.compression_threshold = 4
    /\ ~closed
    /\ \A t \in SendThreads : senders[t].pc = "idle"
    /\ Len(tcp_stream) = Len(FrameOf(1)) + Len(FrameOf(2)) + Len(FrameOf(3))

-----------------------------------------------------------------------------
(* Claims on the two UUID decoders, under SpecCodec *)

\* a LoginSuccess whose uuid bytes are b, and the socket a login ends with
\* after the LoginSuccess handler has stored the decoded uuid
LoginSuccessWith(b) == b \o <<1, 116>> \o <<0>>

SocketAfterLogin(b) ==
    [state |-> "Play", compression_threshold |-> -1,
     uuid |-> DecodeLoginSuccess(LoginSuccessWith(b)).uuid]

\* a Player Chat Message without signatures whose sender bytes are b
PlayerChatFrom(b) == [id |-> 51, data |-> <<0>> \o b \o <<0>> \o <<1, 120>>]

\* C38: the two UUID decoders agree: read_uuid and the LoginSuccess decoder
\* return the same 128-bit value for the same sixteen bytes, so a player
\* chat message whose sender bytes are those of the LoginSuccess uuid has
\* the source that is built from the client.
C38_UuidDecodersAgree ==
    (cop = "uuid" /\ cpc = "read" /\ cout.ok) =>
        LET b == SubSeq(ctail, 1, 16)
        IN  /\ cout.bytes = DecodeLoginSuccess(LoginSuccessWith(b)).uuid
            /\ ChatSource(PlayerChatFrom(b)) = ClientSource(SocketAfterLogin(b))

\* read_uuid has read 00 11 .. FF: both decoders give the value whose high
\* 64 bits are the last eight bytes
C38_Witness ==
    /\ cop = "uuid"
    /\ cpc = "read"
    /\ cout.ok
    /\ ctail = Uuid16
    /\ cout.bytes = <<136, 153, 170, 187, 204, 221, 238, 255,
                      0, 17, 34, 51, 68, 85, 102, 119>>
    /\ ClientSource(SocketAfterLogin(Uuid16)).uuid = cout.bytes

====
